---- MODULE Spec2Model ----
(***************************************************************************)
(* Model of the audit reconciliation engine of detect-secrets              *)
(* (detect_secrets/audit/common.py) together with the pieces it calls:     *)
(* the file transformer selector (detect_secrets/transformers/__init__.py) *)
(* and the plugin analyze_line contract (detect_secrets/plugins/base.py,   *)
(* detect_secrets/plugins/high_entropy_strings.py), and of the scan         *)
(* orchestrator with its filter chain dispatcher                           *)
(* (detect_secrets/core/scan.py): scan_file, scan_diff and scan_line.      *)
(* Further parts cover the construction of the entropy plugins and the    *)
(* verification step of analyze_line, the assignment regex of the keyword *)
(* detectors, and two reconciliations running at the same time on one      *)
(* LineGetter, one statement of the code at a step.                        *)
(*                                                                         *)
(* Python's Optional[X] is modelled as a sequence of length at most one:   *)
(* None is <<>> and a present value x is <<x>>.  A line of text is a       *)
(* sequence of words; a word records the candidate string it carries and   *)
(* whether that string is quote-delimited in the text.                     *)
(***************************************************************************)
EXTENDS Integers, Sequences, FiniteSets, TLC

\* ------------------------------------------------------------------------
\* Bounds of the model
\* ------------------------------------------------------------------------
\* longest output of the lazy transformer, in lines
MaxLazyLines == 1
\* longest output of the eager transformer, in lines
MaxEagerLines == 2
\* number of LineGetter objects that may be constructed in one behaviour
MaxInstances == 3

\* ------------------------------------------------------------------------
\* Values
\* ------------------------------------------------------------------------
None == <<>>
Some(x) == <<x>>

\* what calling a function leaves: the value returned, or the exception
ReturnValue(value) == [raised |-> "", value |-> value]
RaisedError(error) == [raised |-> error, value |-> FALSE]

Files == {"f1", "f2"}
SecretValues == {"A", "B"}
HexType == "Hex High Entropy String"
KeywordType == "Secret Keyword"
PluginTypes == {HexType, KeywordType}

Word(q, v) == [quoted |-> q, val |-> v]
\* the three kinds of line a file is made of: no candidate string at all; a
\* bare word B followed by the quoted string A (as in  B = "A" ); the bare
\* string A alone
BlankLine == <<>>
QuotedLine == <<Word(FALSE, "B"), Word(TRUE, "A")>>
BareLine == <<Word(FALSE, "A")>>
\* the newline that ends every line returned by readlines()
Newline == Word(FALSE, "\n")
LineVals == {BlankLine, QuotedLine, BareLine}

\* all sequences over S of length at most n
SeqsUpTo(S, n) == UNION {[1..k -> S] : k \in 0..n}

\* one-way hash of a raw secret value (PotentialSecret.hash_secret)
HashSecret(v) == "sha1:" \o v
Hashes == {HashSecret(v) : v \in SecretValues}

\* PotentialSecret as produced by a plugin
PotentialSecret(type, filename, secret, line_number, is_verified) ==
    [type |-> type, filename |-> filename, secret_hash |-> HashSecret(secret),
     secret_value |-> Some(secret), line_number |-> line_number,
     is_verified |-> is_verified]

\* PotentialSecret as loaded from a baseline: the raw value is absent
BaselineSecret(type, filename, hash, line_number) ==
    [type |-> type, filename |-> filename, secret_hash |-> hash,
     secret_value |-> None, line_number |-> line_number,
     is_verified |-> FALSE]

\* PotentialSecret.__eq__: identity is (type, filename, secret_hash)
SameSecret(a, b) ==
    /\ a.type = b.type
    /\ a.filename = b.filename
    /\ a.secret_hash = b.secret_hash


\* ------------------------------------------------------------------------
\* File transformer selector (transformers/__init__.py)
\* ------------------------------------------------------------------------
\* The registry returned by get_transformers(): a lazy transformer that only
\* accepts f1 (as a format-specific transformer accepts by file extension) and
\* an eager one that accepts every file.
Transformers ==
    << [name |-> "LazyTransformer", is_eager |-> FALSE, accepts |-> {"f1"}],
       [name |-> "EagerTransformer", is_eager |-> TRUE, accepts |-> Files] >>

ShouldParseFile(t, name) == name \in t.accepts

\* outcome of transformer.parse_file: a list of lines, ParsingError, or any
\* other exception; consumed is how far into the stream (in lines) the
\* transformer has read when it returns or raises
ParsingError == [ok |-> FALSE, out |-> <<>>, error |-> "ParsingError", consumed |-> 0]
Parsed(ls) == [ok |-> TRUE, out |-> ls, error |-> "", consumed |-> 1]
OtherError == [ok |-> FALSE, out |-> <<>>, error |-> "ValueError", consumed |-> 1]
ParseResults(t) ==
    {ParsingError} \cup
    {Parsed(ls) : ls \in SeqsUpTo(LineVals, IF t.is_eager THEN MaxEagerLines
                                                          ELSE MaxLazyLines)}

\* the stream left where parse_file stopped reading
SeekStart_Missing(pos) == pos

\* line 35, finally: file.seek(0)
SeekStart(pos) == 0

\* what one run of the selector did: the value returned (None when it raised),
\* whether an exception other than ParsingError left the function, where the
\* stream stands afterwards, and the transformers whose parse_file was called
Selected(result, raised, pos, invoked) ==
    [result |-> result, raised |-> raised, pos |-> pos, invoked |-> invoked]

\* The loop of get_transformed_file from transformer i on, for a stream that
\* stands at pos; parse[i] is what registry[i].parse_file does on this file.
RECURSIVE TryTransformers(_, _, _, _, _, _, _)
TryTransformers(registry, parse, name, use_eager_transformers, i, pos, invoked) ==
    IF i > Len(registry) THEN Selected(None, FALSE, pos, invoked)
    ELSE IF ~ShouldParseFile(registry[i], name)
         THEN TryTransformers(registry, parse, name, use_eager_transformers,
                              i + 1, pos, invoked)
    ELSE IF use_eager_transformers # registry[i].is_eager
         THEN TryTransformers(registry, parse, name, use_eager_transformers,
                              i + 1, pos, invoked)
    ELSE LET r == parse[i]
             after == SeekStart(r.consumed)
             called == Append(invoked, i)
         IN  IF r.ok THEN Selected(Some(r.out), FALSE, after, called)
             ELSE IF r.error = "ParsingError"
                  THEN TryTransformers(registry, parse, name, use_eager_transformers,
                                       i + 1, after, called)
             ELSE Selected(None, TRUE, after, called)

\* the selector deaf to the requested mode
GetTransformedFileOn_LazyOnly(registry, parse, name, use_eager_transformers, pos) ==
    TryTransformers(registry, parse, name, FALSE, 1, pos, <<>>)

\* get_transformed_file(file, use_eager_transformers) on a stream at pos
GetTransformedFileOn(registry, parse, name, use_eager_transformers, pos) ==
    TryTransformers(registry, parse, name, use_eager_transformers, 1, pos, <<>>)

\* the value get_transformed_file returns for a freshly opened file
GetTransformedFile(registry, parse, name, use_eager_transformers) ==
    GetTransformedFileOn(registry, parse, name, use_eager_transformers, 0).result

\* ------------------------------------------------------------------------
\* Files on disk
\* ------------------------------------------------------------------------
IsSpace(w) == w.val \in {"\n", " "}

\* str.rstrip() on a line of words
RECURSIVE RStrip(_)
RStrip(line) ==
    IF line = <<>> THEN <<>>
    ELSE IF IsSpace(line[Len(line)]) THEN RStrip(SubSeq(line, 1, Len(line) - 1))
    ELSE line

\* f.readlines(): every line still carries its newline
ReadLines(text) == [i \in 1..Len(text) |-> text[i] \o <<Newline>>]

\* what a file can hold: its text (empty or one line; the text only matters as
\* the fallback when no transformer yields lines), what each registered
\* transformer makes of it, the error that opening or decoding it raises
\* ("" when it can be read), and the lines the diff under scan has for it
FileContents(name) ==
    [text : {<<>>} \cup {<<l>> : l \in LineVals},
     error : {""},
     patch : {<<>>},
     parse : {p \in [1..Len(Transformers) ->
                        UNION {ParseResults(Transformers[i]) : i \in 1..Len(Transformers)}] :
                \A i \in 1..Len(Transformers) :
                    /\ p[i] \in ParseResults(Transformers[i])
                    /\ ~ShouldParseFile(Transformers[i], name) => p[i] = ParsingError}]

\* the second file of the audited tree: one line, which no transformer parses
OtherFile ==
    [text |-> <<QuotedLine>>, parse |-> <<ParsingError, ParsingError>>,
     error |-> "", patch |-> <<>>]


\* ------------------------------------------------------------------------
\* State
\* ------------------------------------------------------------------------
VARIABLES
    fs,         \* the files on disk: filename -> FileContents (never written)
    slot,       \* the single entry of open_file's lru_cache: None or Some(LineGetter)
    instances,  \* how many LineGetter objects have been constructed
    issued,     \* history: filename -> id of the LineGetter last handed out for it (0: none)
    last,       \* history: the operation that just completed, with what it did
    filters,    \* get_filters(): the active filters, in registry order
    available_transformers,  \* get_transformers(): the registry, in order
    stream,     \* an open file: its name, its position, and what each
                \* registered transformer's parse_file makes of it
    done,       \* history: the scan-side operation that just completed
    threads,    \* the reconciliations under way at the same time: where each
                \* stands in get_raw_secrets_from_file, and its local variables
    prompt,     \* get_user_decision: where the call stands, its prompter and
                \* its local variable user_input
    regex,      \* self.regex of the entropy plugin: the pattern in effect
    contexts    \* the non_quoted_string_regex contexts that are open, the
                \* innermost last: the local variables of each

auditvars == <<slot, instances, issued, last, threads>>
pluginvars == <<regex, contexts>>
scanvars == <<filters, available_transformers, stream, done, pluginvars>>
vars == <<fs, slot, instances, issued, last, threads, filters,
          available_transformers, stream, done, prompt, regex, contexts>>

\* ------------------------------------------------------------------------
\* LineGetter (audit/common.py)
\* ------------------------------------------------------------------------
\* LineGetter.__init__; lines_mode is history: the flag under which _lines
\* was computed
NewLineGetter(filename, id) ==
    [filename |-> filename, id |-> id, lines |-> None, raw_lines |-> None,
     use_eager |-> FALSE, lines_mode |-> None]

\* truth value of an Optional[List]: None and [] are both false
Truthy(opt) == opt # None /\ Len(opt[1]) > 0

\* LineGetter.raw_lines: the value read and the getter afterwards
RawLines(g) ==
    IF Truthy(g.raw_lines) THEN [getter |-> g, value |-> g.raw_lines[1]]
    ELSE LET f == ReadLines(fs[g.filename].text)
             v == [i \in 1..Len(f) |-> RStrip(f[i])]
         IN  [getter |-> [g EXCEPT !.raw_lines = Some(v)], value |-> v]

\* LineGetter.use_eager_transformers (getter)
UseEagerTransformers(g) == g.use_eager

\* LineGetter.lines: the value read and the getter afterwards
Lines(g) ==
    IF Truthy(g.lines) THEN [getter |-> g, value |-> g.lines[1]]
    ELSE LET t == GetTransformedFile(Transformers, fs[g.filename].parse,
                                     g.filename, UseEagerTransformers(g))
             r == RawLines(g)
         IN  IF ~Truthy(t)
             THEN [getter |-> [r.getter EXCEPT !.lines = Some(r.value),
                                               !.lines_mode = Some(g.use_eager)],
                   value |-> r.value]
             ELSE [getter |-> [g EXCEPT !.lines = t,
                                        !.lines_mode = Some(g.use_eager)],
                   value |-> t[1]]

\* LineGetter.has_cached_lines
HasCachedLines(g) == Truthy(g.lines)

\* the setter without the invalidation of the cached lines
SetUseEagerTransformers_KeepCache(g, status) ==
    IF status = UseEagerTransformers(g) THEN g
    ELSE [g EXCEPT !.use_eager = status]

\* LineGetter.use_eager_transformers (setter)
SetUseEagerTransformers(g, status) ==
    IF status = UseEagerTransformers(g) THEN g
    ELSE [g EXCEPT !.use_eager = status, !.lines = None, !.lines_mode = None]

\* open_file without its cache
OpenFileHit_Never(s, filename) == FALSE

\* open_file under lru_cache(maxsize=1): the cached getter when the one entry
\* is for this filename, a new LineGetter (replacing the entry) otherwise
OpenFileHit(s, filename) == s # None /\ s[1].filename = filename

OpenFile(s, filename, id) ==
    IF OpenFileHit(s, filename) THEN s[1] ELSE NewLineGetter(filename, id)

\* ------------------------------------------------------------------------
\* Plugins (plugins/base.py, plugins/high_entropy_strings.py)
\* ------------------------------------------------------------------------
\* Shannon entropy of the candidate strings, in tenths of a bit
ShannonEntropy(v) == IF v = "A" THEN 35 ELSE 20
\* HexHighEntropyString's default limit 3.0, in tenths of a bit
HexLimit == 30

\* the largest entropy limit a plugin takes: 8 bits, in tenths of a bit
MaxEntropy == 80

\* the range test with both ends shut out
LimitOutOfRange_Strict(limit) == limit <= 0 \/ limit >= MaxEntropy

\* HighEntropyStringsPlugin.__init__, line 23
LimitOutOfRange(limit) == limit < 0 \/ limit > MaxEntropy

\* HighEntropyStringsPlugin.__init__ (lines 22-33): the plugin object, or no
\* object and the error raised
HighEntropyStringsPlugin(secret_type, limit) ==
    IF LimitOutOfRange(limit)
    THEN [plugin |-> None, raised |-> "ValueError"]
    ELSE [plugin |-> Some([secret_type |-> secret_type, family |-> "entropy",
                           entropy_limit |-> limit]),
          raised |-> ""]

\* plugins.initialize.from_secret_type: the one plugin of that type
FromSecretType(type) ==
    IF type = HexType
    THEN HighEntropyStringsPlugin(HexType, HexLimit).plugin[1]
    ELSE [secret_type |-> KeywordType, family |-> "regex", entropy_limit |-> 0]

\* HighEntropyStringsPlugin.analyze_string under the quoted pattern (quoted =
\* TRUE) or under the non-quoted one
EntropyAnalyzeString(line, quoted) ==
    {line[i].val : i \in {j \in 1..Len(line) :
                            ~IsSpace(line[j]) /\ (quoted => line[j].quoted)}}

\* RegexBasedDetector.analyze_string for a keyword detector whose denylist
\* matches every candidate string, quoted or not
RegexAnalyzeString(line) ==
    {line[i].val : i \in {j \in 1..Len(line) : ~IsSpace(line[j])}}

\* what plugin.verify(secret) does: one of the three VerifiedResult values
\* returned, or an error raised
VerifiedResults == {"VERIFIED_TRUE", "VERIFIED_FALSE", "UNVERIFIED"}
VerifyRaised(error) == [raised |-> error, value |-> ""]
VerifyOutcomes ==
    {ReturnValue(r) : r \in VerifiedResults}
        \cup {VerifyRaised("RequestException"), VerifyRaised("ValueError")}

\* BasePlugin.verify (lines 90-91)
DefaultVerify == [m \in SecretValues |-> ReturnValue("UNVERIFIED")]

\* lines 75-76 of analyze_line: the errors of verify that are caught
VerifyCaught(r) == r.raised = "RequestException"

\* BasePlugin.analyze_line (lines 48-88) with verify as the plugin's verify
\* method and verifying telling whether the verification policy filter is in
\* the settings: one record per match, or the error of the first verify call
\* that raised one which is not caught; the matches come out of a generator
\* in no order the model fixes
AnalyzeLineOn(plugin, verify, matches, filename, line_number, verifying) ==
    LET uncaught == {m \in matches : /\ verifying
                                     /\ verify[m].raised # ""
                                     /\ ~VerifyCaught(verify[m])}
        is_verified(m) == verifying /\ verify[m] = ReturnValue("VERIFIED_TRUE")
    IN  IF uncaught # {}
        THEN [output |-> {}, raised |-> verify[CHOOSE m \in uncaught : TRUE].raised]
        ELSE [output |-> {PotentialSecret(plugin.secret_type, filename, m,
                                          line_number, is_verified(m)) :
                            m \in matches},
              raised |-> ""]

\* BasePlugin.analyze_line of a plugin that keeps the default verify
\* (UNVERIFIED), so is_verified stays false
BaseAnalyzeLine(plugin, matches, filename, line_number) ==
    AnalyzeLineOn(plugin, DefaultVerify, matches, filename, line_number, TRUE).output

\* the cutoff with the limit itself let through
AboveLimit_OrEqual(plugin, v) == ShannonEntropy(v) >= plugin.entropy_limit

\* lines 67-74 of analyze_line: the entropy cutoff
AboveLimit(plugin, v) == ShannonEntropy(v) > plugin.entropy_limit

\* the retry made whenever eager search is requested
RetryNonQuoted_WhenEager(output, enable_eager_search) == enable_eager_search

\* line 63 of analyze_line: the non-quoted pattern is tried when the quoted
\* analysis gave nothing and eager search is requested
RetryNonQuoted(output, enable_eager_search) ==
    ~(output # {} \/ ~enable_eager_search)

\* HighEntropyStringsPlugin.analyze_line (lines 46-89): the records returned
\* and the patterns analyze_string ran under, in order
EntropyAnalyzeLineOn(plugin, filename, line, line_number, enable_eager_search) ==
    LET after(output) ==
            IF ~RetryNonQuoted(output, enable_eager_search)
            THEN [output |-> {s \in output : AboveLimit(plugin, s.secret_value[1])},
                  patterns |-> <<"quoted">>]
            ELSE [output |-> BaseAnalyzeLine(plugin, EntropyAnalyzeString(line, FALSE),
                                             filename, line_number),
                  patterns |-> <<"quoted", "non_quoted">>]
    IN  after(BaseAnalyzeLine(plugin, EntropyAnalyzeString(line, TRUE),
                              filename, line_number))

\* HighEntropyStringsPlugin.analyze_line: what it returns
EntropyAnalyzeLine(plugin, filename, line, line_number, enable_eager_search) ==
    EntropyAnalyzeLineOn(plugin, filename, line, line_number,
                         enable_eager_search).output

\* plugin.analyze_line through call_function_with_arguments: a plugin that
\* does not declare enable_eager_search is not given it
AnalyzeLine(plugin, filename, line, line_number, enable_eager_search) ==
    IF plugin.family = "entropy"
    THEN EntropyAnalyzeLine(plugin, filename, line, line_number, enable_eager_search)
    ELSE BaseAnalyzeLine(plugin, RegexAnalyzeString(line), filename, line_number)


\* ------------------------------------------------------------------------
\* Reconciliation (audit/common.py)
\* ------------------------------------------------------------------------
\* a set as a list, in the order a Python loop over the set happens to take
RECURSIVE SetToSeq(_)
SetToSeq(S) ==
    IF S = {} THEN <<>>
    ELSE LET x == CHOOSE y \in S : TRUE IN <<x>> \o SetToSeq(S \ {x})

RECURSIVE Flatten(_)
Flatten(ss) == IF ss = <<>> THEN <<>> ELSE Head(ss) \o Flatten(Tail(ss))

\* the recorded line number used as a 0-based index
SelectLines_OffByOne(secret, lines) ==
    IF secret.line_number # 0
    THEN IF secret.line_number + 1 <= Len(lines)
         THEN Some([line_numbers |-> <<secret.line_number>>,
                    lines_to_scan |-> <<lines[secret.line_number + 1]>>])
         ELSE None
    ELSE Some([line_numbers |-> [i \in 1..Len(lines) |-> i - 1],
               lines_to_scan |-> lines])

\* lines 83-91: the lines one pass scans with their 0-based numbers, or None
\* for the IndexError
SelectLines(secret, lines) ==
    IF secret.line_number # 0
    THEN IF secret.line_number <= Len(lines)
         THEN Some([line_numbers |-> <<secret.line_number - 1>>,
                    lines_to_scan |-> <<lines[secret.line_number]>>])
         ELSE None
    ELSE Some([line_numbers |-> [i \in 1..Len(lines) |-> i - 1],
               lines_to_scan |-> lines])

\* eager search switched on for every record
EnableEagerSearch_Always(secret) == TRUE

\* line 103: enable_eager_search=bool(secret.line_number)
EnableEagerSearch(secret) == secret.line_number # 0

\* every identified secret kept, matching or not
KeepIdentified_All(identified_secrets, secret) == identified_secrets

\* lines 107-109: the identified secrets that are appended to all_secrets
KeepIdentified(identified_secrets, secret) ==
    {s \in identified_secrets : SameSecret(s, secret)}

\* the retry decided without the first-time test
ShouldRetry_AnyTime(all_secrets, is_first_time_opening_file, g) ==
    /\ Len(all_secrets) = 0
    /\ ~UseEagerTransformers(g)

\* lines 111-115: whether the loop flips to eager and goes round again
ShouldRetry(all_secrets, is_first_time_opening_file, g) ==
    /\ Len(all_secrets) = 0
    /\ is_first_time_opening_file
    /\ ~UseEagerTransformers(g)

\* lines 93-109: one pass over the selected lines; calls lists the
\* analyze_line invocations, produced what each returned.  The read of
\* line_getter.lines for the code snippet (line 94) changes nothing: a line is
\* being scanned, so the cached list is there and non-empty.
ScanPass(plugin, secret, sel) ==
    LET n == Len(sel.lines_to_scan)
        calls == [i \in 1..n |->
                    [plugin |-> plugin.secret_type,
                     filename |-> secret.filename,
                     line |-> sel.lines_to_scan[i],
                     line_number |-> sel.line_numbers[i] + 1,
                     enable_eager_search |-> EnableEagerSearch(secret)]]
        produced == [i \in 1..n |->
                       AnalyzeLine(plugin, calls[i].filename, calls[i].line,
                                   calls[i].line_number, calls[i].enable_eager_search)]
    IN  [calls |-> calls, produced |-> produced,
         found |-> Flatten([i \in 1..n |-> SetToSeq(KeepIdentified(produced[i], secret))])]

\* one iteration of the loop as the history records it
PassRecord(eager, lines, selected, calls, produced, all_secrets) ==
    [eager |-> eager, lines |-> lines, selected |-> selected, calls |-> calls,
     produced |-> produced, all_secrets |-> all_secrets]

\* lines 82-118: the while loop
RECURSIVE ReconcileLoop(_, _, _, _, _, _)
ReconcileLoop(plugin, secret, g, is_first_time_opening_file, all_secrets, trace) ==
    LET rd == Lines(g)
        g1 == rd.getter
        sel == SelectLines(secret, rd.value)
    IN  IF sel = None
        THEN [getter |-> g1, kind |-> "SecretNotFoundOnSpecifiedLineError",
              result |-> <<>>, err_line |-> secret.line_number,
              trace |-> Append(trace, PassRecord(g.use_eager, rd.value, FALSE,
                                                 <<>>, <<>>, all_secrets))]
        ELSE LET p == ScanPass(plugin, secret, sel[1])
                 all == all_secrets \o p.found
                 tr == Append(trace, PassRecord(g.use_eager, rd.value, TRUE,
                                                p.calls, p.produced, all))
             IN  IF ShouldRetry(all, is_first_time_opening_file, g1)
                 THEN ReconcileLoop(plugin, secret, SetUseEagerTransformers(g1, TRUE),
                                    is_first_time_opening_file, all, tr)
                 ELSE [getter |-> g1, kind |-> "return", result |-> all,
                       err_line |-> 0, trace |-> tr]

\* the first-time test taken for true on every call
IsFirstTimeOpeningFile_Always(g) == TRUE

\* the first-time test inverted
IsFirstTimeOpeningFile_Inverted(g) == HasCachedLines(g)

\* line 80
IsFirstTimeOpeningFile(g) == ~HasCachedLines(g)

\* get_raw_secrets_from_file on the getter the factory returned
GetRawSecretsFromFileOn(secret, g) ==
    ReconcileLoop(FromSecretType(secret.type), secret, g,
                  IsFirstTimeOpeningFile(g), <<>>, <<>>)


\* ------------------------------------------------------------------------
\* The records a baseline can hold for the audited files
\* ------------------------------------------------------------------------
\* 0 is "no line number"; the largest one lies beyond the shorter outputs
LineNumbers == 0..MaxEagerLines

BaselineSecrets ==
    {BaselineSecret(t, f, h, n) :
        t \in PluginTypes, f \in Files, h \in Hashes, n \in LineNumbers}

\* the records of the file whose content varies
SecretsOfFile(f) == {s \in BaselineSecrets : s.filename = f}

\* one record per file, for the walk over several files
OnePerFile ==
    {s \in BaselineSecrets :
        s.type = HexType /\ s.secret_hash = HashSecret("A") /\ s.line_number = 1}

\* ------------------------------------------------------------------------
\* History of the last operation
\* ------------------------------------------------------------------------
NoSecret == BaselineSecret("", "", "", 0)

Outcome(kind, result, value, err_line) ==
    [kind |-> kind, result |-> result, value |-> value, err_line |-> err_line]

NoOutcome == Outcome("none", <<>>, None, 0)

InitLast ==
    [op |-> "init", secret |-> NoSecret, outcome |-> NoOutcome, trace |-> <<>>,
     getter_id |-> 0, created |-> FALSE, start_cached |-> FALSE,
     start_eager |-> FALSE, end_eager |-> FALSE,
     prev_id |-> 0, prev_file |-> "", factory_file |-> "",
     repeat |-> FALSE, prev_outcome |-> NoOutcome]

\* the scan side at rest: no filter active, the stock transformers, no
\* stream open, nothing scanned
NoStream == [name |-> "", pos |-> 0, parse |-> <<>>]
NothingDone == [op |-> "init"]

\* no reconciliation under way
NoThreads == <<>>

\* no get_user_decision call made yet
NoPrompt ==
    [pc |-> "idle", prompt_secret_decision |-> FALSE, can_step_back |-> FALSE,
     valid_input |-> {}, options |-> <<>>, user_input |-> None,
     input |-> None, printed |-> FALSE, rejected_empty |-> FALSE,
     rejected_text |-> FALSE, returned |-> None]

\* HighEntropyStringsPlugin.__init__ (line 33): the plugin as constructed, with
\* the quoted pattern and no context open
QuotedRegex == "quoted"
PluginIdle ==
    /\ regex = QuotedRegex
    /\ contexts = <<>>
ScanIdle ==
    /\ filters = <<>>
    /\ available_transformers = Transformers
    /\ stream = NoStream
    /\ done = NothingDone

\* ------------------------------------------------------------------------
\* Initial state
\* ------------------------------------------------------------------------
Init ==
    /\ fs \in {[f \in Files |-> IF f = "f1" THEN c ELSE OtherFile] :
                    c \in FileContents("f1")}
    /\ slot = None
    /\ instances = 0
    /\ issued = [f \in Files |-> 0]
    /\ last = InitLast
    /\ prompt = NoPrompt
    /\ PluginIdle
    /\ threads = NoThreads
    /\ ScanIdle

\* ------------------------------------------------------------------------
\* Operations
\* ------------------------------------------------------------------------
\* what a call that went through the factory leaves in the history
CallRecord(op, secret, g, hit, r, outcome, same) ==
    [op |-> op, secret |-> secret, outcome |-> outcome, trace |-> r.trace,
     getter_id |-> g.id, created |-> ~hit,
     start_cached |-> HasCachedLines(g),
     start_eager |-> UseEagerTransformers(g),
     end_eager |-> UseEagerTransformers(r.getter),
     prev_id |-> issued[secret.filename],
     prev_file |-> last.factory_file,
     factory_file |-> secret.filename,
     repeat |-> same,
     prev_outcome |-> IF same THEN last.outcome ELSE NoOutcome]

\* get_raw_secrets_from_file(secret) with the default factory open_file
GetRawSecretsFromFile(secret) ==
    LET hit == OpenFileHit(slot, secret.filename)
        g == OpenFile(slot, secret.filename, instances + 1)
        r == GetRawSecretsFromFileOn(secret, g)
    IN  /\ hit \/ instances < MaxInstances
        /\ slot' = Some(r.getter)
        /\ instances' = IF hit THEN instances ELSE instances + 1
        /\ issued' = [issued EXCEPT ![secret.filename] = g.id]
        /\ last' = CallRecord("get_raw_secrets_from_file", secret, g, hit, r,
                              Outcome(r.kind, r.result, None, r.err_line), FALSE)
        /\ UNCHANGED <<fs, prompt, threads, scanvars>>

\* an empty search answered with None instead of the error
FirstSecretValue_NoRaise(secret, r) ==
    IF r.kind # "return" THEN Outcome(r.kind, <<>>, None, r.err_line)
    ELSE IF Len(r.result) > 0
         THEN Outcome("return", <<>>, r.result[1].secret_value, 0)
         ELSE Outcome("return", <<>>, None, 0)

\* lines 59-62 of get_raw_secret_from_file: the first item's value, or the error
FirstSecretValue(secret, r) ==
    IF r.kind # "return" THEN Outcome(r.kind, <<>>, None, r.err_line)
    ELSE IF Len(r.result) > 0
         THEN Outcome("return", <<>>, r.result[1].secret_value, 0)
         ELSE Outcome("SecretNotFoundOnSpecifiedLineError", <<>>, None,
                      secret.line_number)

\* get_raw_secret_from_file(secret) with the default factory open_file
GetRawSecretFromFile(secret) ==
    LET same == last.op = "get_raw_secret_from_file" /\ last.secret = secret
        hit == OpenFileHit(slot, secret.filename)
        g == OpenFile(slot, secret.filename, instances + 1)
        r == GetRawSecretsFromFileOn(secret, g)
    IN  IF secret.line_number = 0
        THEN /\ last' = [InitLast EXCEPT
                            !.op = "get_raw_secret_from_file",
                            !.secret = secret,
                            !.outcome = Outcome("NoLineNumberError", <<>>, None, 0),
                            !.prev_file = last.factory_file,
                            !.factory_file = last.factory_file,
                            !.repeat = same,
                            !.prev_outcome = IF same THEN last.outcome ELSE NoOutcome]
             /\ UNCHANGED <<fs, prompt, slot, instances, issued, threads, scanvars>>
        ELSE /\ hit \/ instances < MaxInstances
             /\ slot' = Some(r.getter)
             /\ instances' = IF hit THEN instances ELSE instances + 1
             /\ issued' = [issued EXCEPT ![secret.filename] = g.id]
             /\ last' = CallRecord("get_raw_secret_from_file", secret, g, hit, r,
                                   FirstSecretValue(secret, r), same)
             /\ UNCHANGED <<fs, prompt, threads, scanvars>>

\* a caller reading line_getter.lines
ReadLinesProperty ==
    /\ slot # None
    /\ slot' = Some(Lines(slot[1]).getter)
    /\ last' = [InitLast EXCEPT !.op = "lines",
                                !.start_cached = HasCachedLines(slot[1]),
                                !.start_eager = UseEagerTransformers(slot[1]),
                                !.end_eager = UseEagerTransformers(slot[1])]
    /\ UNCHANGED <<fs, prompt, instances, issued, threads, scanvars>>

\* a caller reading line_getter.raw_lines
ReadRawLinesProperty ==
    /\ slot # None
    /\ slot' = Some(RawLines(slot[1]).getter)
    /\ last' = [InitLast EXCEPT !.op = "raw_lines",
                                !.start_cached = HasCachedLines(slot[1]),
                                !.start_eager = UseEagerTransformers(slot[1]),
                                !.end_eager = UseEagerTransformers(slot[1])]
    /\ UNCHANGED <<fs, prompt, instances, issued, threads, scanvars>>

\* a caller assigning line_getter.use_eager_transformers = status
AssignUseEagerTransformers(status) ==
    /\ slot # None
    /\ slot' = Some(SetUseEagerTransformers(slot[1], status))
    /\ last' = [InitLast EXCEPT !.op = "use_eager_transformers",
                                !.start_cached = HasCachedLines(slot[1]),
                                !.start_eager = UseEagerTransformers(slot[1]),
                                !.end_eager = status]
    /\ UNCHANGED <<fs, prompt, instances, issued, threads, scanvars>>

\* ------------------------------------------------------------------------
\* Specifications
\* ------------------------------------------------------------------------
\* Spec: any sequence of get_raw_secrets_from_file calls for the records of
\* one file, whatever the file holds
Next == \E secret \in SecretsOfFile("f1") : GetRawSecretsFromFile(secret)

Spec == Init /\ [][Next]_vars

\* SpecOne: any sequence of get_raw_secret_from_file calls for the records
\* of one file
NextOne == \E secret \in SecretsOfFile("f1") : GetRawSecretFromFile(secret)

SpecOne == Init /\ [][NextOne]_vars

\* SpecFiles: reconciliation walking over several files, one record each
NextFiles == \E secret \in OnePerFile : GetRawSecretsFromFile(secret)

SpecFiles == Init /\ [][NextFiles]_vars


\* ------------------------------------------------------------------------
\* Notions the properties are stated in
\* ------------------------------------------------------------------------
\* the lines a LineGetter of file f serves while its mode flag is `eager`
LinesUnder(f, eager) ==
    Lines([NewLineGetter(f, 0) EXCEPT !.use_eager = eager]).value

\* the record's secret is detectable in `lines`: the plugin of the record's
\* type, run as reconciliation runs it on the recorded line (on any line when
\* no line number is recorded), produces a candidate with the record's identity
Detectable(secret, lines) ==
    \E i \in 1..Len(lines) :
        /\ secret.line_number = 0 \/ secret.line_number = i
        /\ \E c \in AnalyzeLine(FromSecretType(secret.type), secret.filename,
                                lines[i], i, secret.line_number # 0) :
                SameSecret(c, secret)

IsSearch == last.op = "get_raw_secrets_from_file"
IsRecover == last.op = "get_raw_secret_from_file"
Returned == last.outcome.kind = "return"
NotFoundError == last.outcome.kind = "SecretNotFoundOnSpecifiedLineError"
Passes == Len(last.trace)
FinalPass == last.trace[Passes]

\* ------------------------------------------------------------------------
\* C1  A call on a fresh cache (no cached lines, lazy mode) for a record whose
\* secret is detectable only in the eagerly transformed lines scans the lazy
\* lines, finds nothing, switches the cache to eager exactly once, rescans
\* and returns the matching record(s).
\* ------------------------------------------------------------------------
C1_EagerOnlyCase ==
    /\ IsSearch
    /\ ~last.start_cached /\ ~last.start_eager
    /\ ~Detectable(last.secret, LinesUnder(last.secret.filename, FALSE))
    /\ Detectable(last.secret, LinesUnder(last.secret.filename, TRUE))

C1_RetryRecoversEagerOnlySecret ==
    C1_EagerOnlyCase =>
        /\ Returned
        /\ Len(last.outcome.result) > 0
        /\ \A i \in 1..Len(last.outcome.result) :
                SameSecret(last.outcome.result[i], last.secret)
        /\ Passes = 2
        /\ ~last.trace[1].eager /\ last.trace[1].selected
        /\ last.trace[1].all_secrets = <<>>
        /\ last.trace[2].eager
        /\ last.end_eager

\* the same statement for the calls whose lazy lines reach the recorded line
C1_RetryRecoversWhenLazyLinesReach ==
    (/\ C1_EagerOnlyCase
     /\ last.secret.line_number <= Len(LinesUnder(last.secret.filename, FALSE)))
        => C1_RetryRecoversEagerOnlySecret

C1_RetryHappened ==
    C1_EagerOnlyCase /\ Returned /\ Passes = 2 /\ Len(last.outcome.result) > 0


\* ------------------------------------------------------------------------
\* C2  In any sequence of calls on one file sharing one cache, each call
\* returns a non-empty result whenever the secret is detectable at its
\* recorded line under the lazy or under the eager transformation, whatever
\* mode earlier calls left cached (stated for the calls that find lines an
\* earlier call left cached).
\* ------------------------------------------------------------------------
C2_FoundUnderEitherMode ==
    (/\ IsSearch
     /\ ~last.created /\ last.start_cached
     /\ \/ Detectable(last.secret, LinesUnder(last.secret.filename, FALSE))
        \/ Detectable(last.secret, LinesUnder(last.secret.filename, TRUE)))
        => (Returned /\ Len(last.outcome.result) > 0)

\* C2 as amended: each call returns a non-empty result whenever the secret is
\* detectable at its recorded line under the transformation of the mode the
\* cache is in when the call ends; a call that finds lines already cached
\* makes one pass in the mode earlier calls left and never tries the other.
C2_FoundUnderModeInUse ==
    IsSearch =>
        /\ Detectable(last.secret, LinesUnder(last.secret.filename, last.end_eager))
                => (Returned /\ Len(last.outcome.result) > 0)
        /\ last.start_cached => (Passes = 1 /\ last.end_eager = last.start_eager)

\* a later call served from the eager lines an earlier call left cached
C2_FoundInCachedEagerLines ==
    /\ IsSearch
    /\ last.start_cached /\ last.start_eager
    /\ Returned /\ Len(last.outcome.result) > 0

\* ------------------------------------------------------------------------
\* C3  Two successive get_raw_secret_from_file calls with the same record, on
\* an unchanged file and a shared cache, have the same outcome (the same
\* value, or the same error); the second call leaves the mode flag as it
\* found it, and no call takes a cache out of eager mode.
\* ------------------------------------------------------------------------
C3_RecoverTwiceSame ==
    IsRecover =>
        /\ last.repeat =>
                /\ last.outcome = last.prev_outcome
                /\ last.end_eager = last.start_eager
                /\ ~last.created
        /\ last.start_eager => last.end_eager

\* the second of two equal calls, answered from the eager lines the first left
C3_SecondCallOnEagerCache ==
    /\ IsRecover /\ last.repeat
    /\ last.start_eager /\ last.start_cached
    /\ Returned /\ last.outcome.value # None

\* ------------------------------------------------------------------------
\* C4  get_raw_secrets_from_file makes at most two passes.  It goes into a
\* second pass exactly when the first pass scanned its lines and matched
\* nothing, the cache held no lines when the call started, and the cache was
\* in lazy mode; the cache is eager, and serves eagerly transformed lines, in
\* that second pass.  A pass that scanned its lines and is not followed by
\* another one is the end of the call, which returns what was found.
\* ------------------------------------------------------------------------
C4_AtMostOneRetry ==
    IsSearch =>
        /\ Passes \in {1, 2}
        /\ Passes = 2 <=>
                /\ last.trace[1].selected
                /\ last.trace[1].all_secrets = <<>>
                /\ ~last.start_cached
                /\ ~last.start_eager
        /\ Passes = 2 =>
                /\ ~last.trace[1].eager
                /\ last.trace[2].eager
                /\ last.trace[2].lines = LinesUnder(last.secret.filename, TRUE)
                /\ last.end_eager
        /\ Passes = 1 => last.end_eager = last.start_eager
        /\ FinalPass.selected =>
                /\ Returned
                /\ last.outcome.result = FinalPass.all_secrets

\* a call that went round twice and found the secret the second time
C4_SecondPassFound ==
    /\ IsSearch /\ Passes = 2
    /\ Returned /\ Len(last.outcome.result) > 0
    /\ last.trace[1].lines # last.trace[2].lines

C6_PassAnalyzes(p) ==
    LET n == last.secret.line_number
    IN  /\ p.lines = LinesUnder(last.secret.filename, p.eager)
        /\ n # 0 =>
                /\ p.selected <=> n <= Len(p.lines)
                /\ p.selected =>
                        /\ Len(p.calls) = 1
                        /\ p.calls[1].line = p.lines[n]
                        /\ p.calls[1].line_number = n
                /\ ~p.selected => p.calls = <<>>
        /\ n = 0 =>
                /\ p.selected
                /\ Len(p.calls) = Len(p.lines)
                /\ \A i \in 1..Len(p.lines) :
                        /\ p.calls[i].line = p.lines[i]
                        /\ p.calls[i].line_number = i

C6_LineSelection ==
    IsSearch =>
        /\ \A k \in 1..Passes : C6_PassAnalyzes(last.trace[k])
        /\ \A k \in 1..Passes :
                ~last.trace[k].selected =>
                    /\ k = Passes
                    /\ NotFoundError
                    /\ last.outcome.err_line = last.secret.line_number
        /\ NotFoundError => ~FinalPass.selected

\* the lines of the current mode exist but end before the recorded line
C6_RecordedLineOutOfRange ==
    /\ IsSearch
    /\ NotFoundError
    /\ ~FinalPass.selected
    /\ Len(FinalPass.lines) > 0

\* ------------------------------------------------------------------------
\* C7  get_raw_secret_from_file fails with NoLineNumberError when the record
\* has line number 0, before any plugin runs and without creating or changing
\* a line cache; it fails with SecretNotFoundOnSpecifiedLineError carrying the
\* recorded line number when the search returns no match; otherwise it
\* returns the secret_value of a record matching the input.
\* ------------------------------------------------------------------------
C7_Outcomes ==
    IsRecover =>
        /\ last.secret.line_number = 0 =>
                /\ last.outcome.kind = "NoLineNumberError"
                /\ last.trace = <<>>
        /\ last.secret.line_number # 0 =>
                /\ Passes >= 1
                /\ IF FinalPass.selected /\ FinalPass.all_secrets # <<>>
                   THEN /\ Returned
                        /\ last.outcome.value # None
                        /\ \E i \in 1..Len(FinalPass.all_secrets) :
                              /\ SameSecret(FinalPass.all_secrets[i], last.secret)
                              /\ FinalPass.all_secrets[i].secret_value = last.outcome.value
                        /\ HashSecret(last.outcome.value[1]) = last.secret.secret_hash
                   ELSE /\ NotFoundError
                        /\ last.outcome.err_line = last.secret.line_number

C7_NoLineNumberTouchesNothing ==
    (last'.op = "get_raw_secret_from_file" /\ last'.secret.line_number = 0)
        => UNCHANGED <<slot, instances, issued, fs>>

C7_RecoverOutcomes == []C7_Outcomes /\ [][C7_NoLineNumberTouchesNothing]_vars

\* a record without line number is refused while a cache with lines exists
C7_RefusedBesideCache ==
    /\ IsRecover
    /\ last.outcome.kind = "NoLineNumberError"
    /\ slot # None /\ HasCachedLines(slot[1])

\* ------------------------------------------------------------------------
\* C8  Every record get_raw_secrets_from_file returns has the identity (type,
\* filename, secret hash) of the input record and comes from the one plugin
\* of the record's type; every candidate that plugin produced on a scanned
\* line in the returning pass and that equals the input is in the result.
\* ------------------------------------------------------------------------
C8_ResultIsTheMatches ==
    (IsSearch /\ Returned) =>
        /\ \A i \in 1..Len(last.outcome.result) :
                /\ SameSecret(last.outcome.result[i], last.secret)
                /\ last.outcome.result[i].type = last.secret.type
                /\ \E k \in 1..Len(FinalPass.produced) :
                        last.outcome.result[i] \in FinalPass.produced[k]
        /\ \A p \in 1..Passes : \A i \in 1..Len(last.trace[p].calls) :
                last.trace[p].calls[i].plugin = last.secret.type
        /\ \A k \in 1..Len(FinalPass.produced) :
                \A c \in FinalPass.produced[k] :
                    SameSecret(c, last.secret) =>
                        \E i \in 1..Len(last.outcome.result) :
                            last.outcome.result[i] = c

\* a returning pass in which the plugin produced the requested secret and
\* another candidate on the same line
C8_MatchAmongOthers ==
    /\ IsSearch /\ Returned
    /\ Len(last.outcome.result) > 0
    /\ \E k \in 1..Len(FinalPass.produced) :
            /\ \E c \in FinalPass.produced[k] : SameSecret(c, last.secret)
            /\ \E c \in FinalPass.produced[k] : ~SameSecret(c, last.secret)


\* SpecLineGetter: one LineGetter, just constructed for a file of any
\* content, whose properties are read and whose mode flag is assigned in any
\* order
InitLineGetter ==
    /\ fs \in {[f \in Files |-> IF f = "f1" THEN c ELSE OtherFile] :
                    c \in FileContents("f1")}
    /\ slot = Some(NewLineGetter("f1", 1))
    /\ instances = 1
    /\ issued = [f \in Files |-> IF f = "f1" THEN 1 ELSE 0]
    /\ last = InitLast
    /\ prompt = NoPrompt
    /\ PluginIdle
    /\ threads = NoThreads
    /\ ScanIdle

NextLineGetter ==
    \/ ReadLinesProperty
    \/ ReadRawLinesProperty
    \/ \E status \in BOOLEAN : AssignUseEagerTransformers(status)

SpecLineGetter == InitLineGetter /\ [][NextLineGetter]_vars

\* ------------------------------------------------------------------------
\* C9  After any sequence of mode-flag assignments and reads of lines and
\* raw_lines, cached transformed lines, when present, were computed under the
\* current value of the mode flag; assigning a different value clears the
\* cached transformed lines, assigning the current value clears nothing, and
\* no assignment clears the cached raw lines.
\* ------------------------------------------------------------------------
C9_CachedLinesOfCurrentMode ==
    slot # None =>
        (slot[1].lines # None =>
            /\ slot[1].lines_mode = Some(slot[1].use_eager)
            /\ slot[1].lines[1] = LinesUnder(slot[1].filename, slot[1].use_eager))

C9_AssignmentEffect ==
    \A status \in BOOLEAN :
        AssignUseEagerTransformers(status) =>
            /\ status # slot[1].use_eager =>
                    /\ slot'[1].lines = None
                    /\ slot'[1].use_eager = status
            /\ status = slot[1].use_eager => slot'[1] = slot[1]
            /\ slot'[1].raw_lines = slot[1].raw_lines

C9_ModeFlagInvalidatesLines ==
    []C9_CachedLinesOfCurrentMode /\ [][C9_AssignmentEffect]_vars

\* an assignment has just dropped cached transformed lines and kept the raw ones
C9_LinesDroppedRawKept ==
    /\ last.op = "use_eager_transformers"
    /\ last.start_cached
    /\ last.end_eager # last.start_eager
    /\ slot[1].lines = None
    /\ slot[1].raw_lines # None /\ Len(slot[1].raw_lines[1]) > 0

\* ------------------------------------------------------------------------
\* C10  With the default factory open_file, in any sequence of calls over
\* any filenames, all calls that name the same file obtain the same
\* LineGetter instance, so that what an earlier call cached is reused by
\* every later call on that file.
\* ------------------------------------------------------------------------
C10_SameFileSameGetter ==
    (IsSearch /\ last.prev_id # 0) =>
        (last.getter_id = last.prev_id /\ ~last.created)

\* C10 as amended: calls that name the same file obtain the same LineGetter
\* instance as long as no call naming another file comes between them (the
\* factory remembers the getter of the last filename only): a call naming the
\* file of the call just before it gets that call's instance with the lines
\* and mode flag it left; a call naming any other file gets a new LineGetter,
\* lazy and without lines.
C10_ConsecutiveCalls ==
    IsSearch =>
        /\ last.prev_file = last.secret.filename =>
                (last.getter_id = last.prev_id /\ ~last.created)
        /\ last.prev_file # last.secret.filename =>
                /\ last.created
                /\ last.getter_id = instances
                /\ ~last.start_cached /\ ~last.start_eager

C10_CachedStateCarriedOver ==
    (/\ last.op = "get_raw_secrets_from_file"
     /\ last'.op = "get_raw_secrets_from_file"
     /\ last'.secret.filename = last.secret.filename) =>
        /\ last'.start_eager = last.end_eager
        /\ last'.start_cached = HasCachedLines(slot[1])

C10_SameGetterWhileFileUnchanged ==
    []C10_ConsecutiveCalls /\ [][C10_CachedStateCarriedOver]_vars

\* a call served by the getter, lines and eager flag the previous call left
C10_GetterReused ==
    /\ IsSearch
    /\ last.prev_file = last.secret.filename
    /\ ~last.created
    /\ last.start_cached /\ last.start_eager


\* ------------------------------------------------------------------------
\* SpecTransform: get_transformed_file called, in either mode, on an open
\* stream of one file under any registry of up to MaxTransformers
\* transformers; between calls the caller may read the stream to its end
\* (f.readlines()) or rewind it (f.seek(0)).
\* ------------------------------------------------------------------------
\* longest registry of transformers
MaxTransformers == 3

\* what parse_file can do on the stream's file; ParsingError raised before
\* anything was read or after the whole file was
ParseOutcomes ==
    {ParsingError, [ParsingError EXCEPT !.consumed = 1], OtherError,
     Parsed(<<>>), Parsed(<<QuotedLine>>)}

\* the registries get_transformers() can return, each transformer with what
\* its parse_file does on the stream's file (a transformer that rejects the
\* file name has no outcome that matters)
TransformerChoices(name) ==
    {[t |-> [name |-> "Transformer", is_eager |-> e, accepts |-> a], parse |-> r] :
        e \in BOOLEAN, a \in {{}, {name}}, r \in ParseOutcomes}

Registries(name) ==
    {c \in SeqsUpTo(TransformerChoices(name), MaxTransformers) :
        \A i \in 1..Len(c) :
            ~ShouldParseFile(c[i].t, name) => c[i].parse = ParsingError}

TransformCall(op, eager, entry_pos, r, lines) ==
    [op |-> op, eager |-> eager, entry_pos |-> entry_pos, result |-> r.result,
     raised |-> r.raised, invoked |-> r.invoked, lines |-> lines]

InitTransform ==
    /\ fs = [f \in Files |-> OtherFile]
    /\ slot = None
    /\ instances = 0
    /\ issued = [f \in Files |-> 0]
    /\ last = InitLast
    /\ prompt = NoPrompt
    /\ PluginIdle
    /\ threads = NoThreads
    /\ filters = <<>>
    /\ \E c \in Registries("f1") :
          /\ available_transformers = [i \in 1..Len(c) |-> c[i].t]
          /\ stream = [name |-> "f1", pos |-> 0,
                       parse |-> [i \in 1..Len(c) |-> c[i].parse]]
    /\ done = NothingDone

\* get_transformed_file(stream, use_eager_transformers)
CallGetTransformedFile(use_eager_transformers) ==
    LET r == GetTransformedFileOn(available_transformers, stream.parse, stream.name,
                                  use_eager_transformers, stream.pos)
    IN  /\ stream' = [stream EXCEPT !.pos = r.pos]
        /\ done' = TransformCall("get_transformed_file", use_eager_transformers,
                                 stream.pos, r, <<>>)
        /\ UNCHANGED <<fs, prompt, auditvars, pluginvars, filters, available_transformers>>

\* f.readlines(): the lines from the stream's position to its end
Readlines ==
    LET all == ReadLines(fs[stream.name].text)
    IN  /\ stream' = [stream EXCEPT !.pos = Len(all)]
        /\ done' = TransformCall("readlines", FALSE, stream.pos,
                                 Selected(None, FALSE, Len(all), <<>>),
                                 SubSeq(all, stream.pos + 1, Len(all)))
        /\ UNCHANGED <<fs, prompt, auditvars, pluginvars, filters, available_transformers>>

\* f.seek(0)
Seek ==
    /\ stream' = [stream EXCEPT !.pos = 0]
    /\ done' = TransformCall("seek", FALSE, stream.pos,
                             Selected(None, FALSE, 0, <<>>), <<>>)
    /\ UNCHANGED <<fs, prompt, auditvars, pluginvars, filters, available_transformers>>

NextTransform ==
    \/ \E e \in BOOLEAN : CallGetTransformedFile(e)
    \/ Readlines
    \/ Seek

SpecTransform == InitTransform /\ [][NextTransform]_vars

\* the transformers of the registry that accept the stream's name and have
\* the eagerness the last call asked for
Qualifying ==
    {i \in 1..Len(available_transformers) :
        /\ ShouldParseFile(available_transformers[i], stream.name)
        /\ available_transformers[i].is_eager = done.eager}

\* those of them whose parse_file does not raise ParsingError
NotDeclining == {i \in Qualifying : stream.parse[i].error # "ParsingError"}

Lowest(S) == CHOOSE m \in S : \A j \in S : m <= j

\* s lists exactly the members of S, in increasing order
ListsInOrder(s, S) ==
    /\ {s[k] : k \in 1..Len(s)} = S
    /\ \A k \in 1..Len(s) - 1 : s[k] < s[k + 1]

\* ------------------------------------------------------------------------
\* C14  get_transformed_file returns the result of the first transformer, in
\* registry order, that accepts the file name, has the requested eagerness
\* and does not raise ParsingError.  No transformer that rejects the name or
\* has the other eagerness is invoked; the ones invoked are the qualifying
\* ones up to and including the one that answered (every qualifying one when
\* all of them raise ParsingError, and then the result is None).
\* ------------------------------------------------------------------------
C14_FirstQualifyingTransformer ==
    done.op = "get_transformed_file" =>
        /\ \A k \in 1..Len(done.invoked) : done.invoked[k] \in Qualifying
        /\ IF NotDeclining = {}
           THEN /\ ~done.raised
                /\ done.result = None
                /\ ListsInOrder(done.invoked, Qualifying)
           ELSE LET m == Lowest(NotDeclining)
                IN  /\ ListsInOrder(done.invoked, {i \in Qualifying : i <= m})
                    /\ done.raised = ~stream.parse[m].ok
                    /\ ~done.raised => done.result = Some(stream.parse[m].out)

\* a call that passed over a transformer of the other kind and one that
\* raised ParsingError before the third one answered
C14_ThirdTransformerAnswered ==
    /\ done.op = "get_transformed_file"
    /\ done.invoked = <<2, 3>>
    /\ done.result = Some(<<QuotedLine>>)

\* ------------------------------------------------------------------------
\* C15  A call of get_transformed_file on a stream that stands at its start
\* leaves the stream at its start, whether a transformer answered, raised
\* ParsingError, raised another error, or none was tried; and f.readlines()
\* right after such a call returns every line of the file.
\* ------------------------------------------------------------------------
C15_CalledAtStart == done.op = "get_transformed_file" /\ done.entry_pos = 0

C15_StreamPositionRestored ==
    /\ [](C15_CalledAtStart => stream.pos = 0)
    /\ [][(C15_CalledAtStart /\ done'.op = "readlines")
            => done'.lines = ReadLines(fs[stream.name].text)]_vars

\* a transformer read the stream and raised an error other than ParsingError,
\* and the stream is back at its start
C15_RewoundAfterError ==
    /\ C15_CalledAtStart
    /\ done.raised
    /\ stream.parse[done.invoked[Len(done.invoked)]].consumed > 0
    /\ stream.pos = 0


\* ------------------------------------------------------------------------
\* Filter chain dispatcher (core/scan.py)
\* ------------------------------------------------------------------------
\* A filter: its path, the parameter names it declares (injectable_variables),
\* those among them that have no default (required), and the argument values
\* for which it answers true.
Filter(path, injectable_variables, required, rejects) ==
    [path |-> path, injectable_variables |-> injectable_variables,
     required |-> required, rejects |-> rejects]

\* the parameters whose value a modelled filter looks at
Judged == {"filename", "line", "secret"}

\* a subset of the parameters accepted as a superset
GetFiltersWithParameter_Subset(active, parameters) ==
    SelectSeq(active, LAMBDA f : f.injectable_variables \subseteq parameters)

\* every active filter eligible
GetFiltersWithParameter_All(active, parameters) == active

\* get_filters_with_parameter(*parameters) over the active filters
GetFiltersWithParameter(active, parameters) ==
    SelectSeq(active, LAMBDA f : parameters \subseteq f.injectable_variables)


\* util.inject.call_function_with_arguments(filter_fn, **kwargs): the filter
\* is called with those of the supplied values it declares; the call fails
\* with TypeError when a parameter without default is not among them
CallFunctionWithArguments(f, kwargs) ==
    LET supplied == DOMAIN kwargs \cap f.injectable_variables
    IN  IF ~(f.required \subseteq supplied) THEN RaisedError("TypeError")
        ELSE ReturnValue(\E p \in supplied \cap Judged : kwargs[p] \in f.rejects[p])

\* no exception caught
Caught_Never(r) == FALSE

\* lines 418-420: except TypeError: pass
Caught(r) == r.raised = "TypeError"

\* a true answer not acted upon
Suppressing_Never(r) == FALSE

\* line 406: if call_function_with_arguments(filter_fn, **kwargs)
Suppressing(r) == r.raised = "" /\ r.value

\* lines 407-414: the message logged for the filter that suppressed
DebugMsg(f, kwargs) ==
    IF "secret" \in DOMAIN kwargs
    THEN [skipping |-> "secret value", subject |-> kwargs["secret"], due_to |-> f.path]
    ELSE IF DOMAIN kwargs = {"filename"}
         THEN [skipping |-> "file", subject |-> kwargs["filename"], due_to |-> f.path]
    ELSE [skipping |-> "secret", subject |-> "", due_to |-> f.path]

\* what one run of the dispatcher did: its answer, the exception that left
\* it ("" for none), the filters it invoked with what each invocation gave,
\* and the message it logged
Dispatched(result, raised, invoked, log) ==
    [result |-> result, raised |-> raised, invoked |-> invoked, log |-> log]

\* lines 404-422: the loop of _is_filtered_out from the k-th eligible filter
RECURSIVE FilterLoop(_, _, _, _)
FilterLoop(eligible, kwargs, k, invoked) ==
    IF k > Len(eligible) THEN Dispatched(FALSE, "", invoked, None)
    ELSE LET r == CallFunctionWithArguments(eligible[k], kwargs)
             called == Append(invoked, [path |-> eligible[k].path, outcome |-> r])
         IN  IF Suppressing(r)
             THEN Dispatched(TRUE, "", called, Some(DebugMsg(eligible[k], kwargs)))
             ELSE IF r.raised = "" \/ Caught(r)
                  THEN FilterLoop(eligible, kwargs, k + 1, called)
             ELSE Dispatched(FALSE, r.raised, called, None)

\* _is_filtered_out(required_filter_parameters, **kwargs)
IsFilteredOut(active, required_filter_parameters, kwargs) ==
    FilterLoop(GetFiltersWithParameter(active, required_filter_parameters),
               kwargs, 1, <<>>)

\* ------------------------------------------------------------------------
\* SpecFilters: the dispatcher under any registry of up to MaxFilters active
\* filters, asked for the eligible filters of a parameter set and run at each
\* of the checkpoints of the scan
\* ------------------------------------------------------------------------
\* longest registry of active filters
MaxFilters == 3

\* the parameter sets filters declare, with the parameters that have no default
FilterShapes ==
    { [path |-> "by_filename", declares |-> {"filename"}, required |-> {"filename"}],
      [path |-> "by_secret", declares |-> {"secret"}, required |-> {"secret"}],
      [path |-> "by_filename_and_secret", declares |-> {"filename", "secret"},
       required |-> {"filename", "secret"}],
      [path |-> "by_filename_secret_optional", declares |-> {"filename", "secret"},
       required |-> {"filename"}],
      [path |-> "by_line", declares |-> {"line"}, required |-> {"line"}],
      [path |-> "by_line_and_context", declares |-> {"line", "context"},
       required |-> {"line", "context"}] }

RejectNothing == [filename |-> {}, line |-> {}, secret |-> {}]
RejectAll == [filename |-> Files, line |-> LineVals, secret |-> SecretValues]

FilterPool ==
    {Filter(s.path, s.declares, s.required, r) :
        s \in FilterShapes, r \in {RejectNothing, RejectAll}}

\* get_filters(): any list of filters of distinct paths
FilterRegistries ==
    {c \in SeqsUpTo(FilterPool, MaxFilters) :
        \A i, j \in 1..Len(c) : c[i].path = c[j].path => i = j}

\* the calls of the dispatcher in the scan: the required parameters and the
\* values supplied
CodeSnippet(lines, line_number) == [lines |-> lines, target |-> line_number]

FileCheckpoint(filename) ==
    [required |-> {"filename"}, kwargs |-> [filename |-> filename]]
LineCheckpoint(filename, line, context) ==
    [required |-> {"line"},
     kwargs |-> [filename |-> filename, line |-> line, context |-> context]]
AllowlistedLineCheckpoint(filename, line) ==
    [required |-> {"line"}, kwargs |-> [filename |-> filename, line |-> line]]
SecretCheckpoint(filename, secret, plugin, line) ==
    [required |-> {"secret"},
     kwargs |-> [filename |-> filename, secret |-> secret, plugin |-> plugin,
                 line |-> line]]
ContextCheckpoint(filename, secret, plugin, line, context) ==
    [required |-> {"context"},
     kwargs |-> [filename |-> filename, secret |-> secret, plugin |-> plugin,
                 line |-> line, context |-> context]]

Checkpoints ==
    LET snippet == CodeSnippet(<<QuotedLine>>, 1)
    IN  { FileCheckpoint("f1"),
          LineCheckpoint("f1", QuotedLine, snippet),
          AllowlistedLineCheckpoint("f1", QuotedLine),
          SecretCheckpoint("f1", "A", HexType, QuotedLine),
          ContextCheckpoint("f1", "A", HexType, QuotedLine, snippet) }

ParameterSets ==
    {{"filename"}, {"line"}, {"secret"}, {"context"}, {"filename", "secret"}}

Paths(fseq) == [i \in 1..Len(fseq) |-> fseq[i].path]

FilterCall(op, parameters, keys, eligible, d) ==
    [op |-> op, parameters |-> parameters, keys |-> keys, eligible |-> eligible,
     result |-> d.result, raised |-> d.raised, invoked |-> d.invoked,
     log |-> d.log]

InitFilters ==
    /\ fs = [f \in Files |-> OtherFile]
    /\ slot = None
    /\ instances = 0
    /\ issued = [f \in Files |-> 0]
    /\ last = InitLast
    /\ prompt = NoPrompt
    /\ PluginIdle
    /\ threads = NoThreads
    /\ filters \in FilterRegistries
    /\ available_transformers = Transformers
    /\ stream = NoStream
    /\ done = NothingDone

\* get_filters_with_parameter(*parameters)
CallGetFiltersWithParameter(parameters) ==
    /\ done' = FilterCall("get_filters_with_parameter", parameters, {},
                          Paths(GetFiltersWithParameter(filters, parameters)),
                          Dispatched(FALSE, "", <<>>, None))
    /\ UNCHANGED <<fs, prompt, auditvars, pluginvars, filters, available_transformers, stream>>

\* _is_filtered_out(required_filter_parameters, **kwargs) at a checkpoint
CallIsFilteredOut(checkpoint) ==
    /\ done' = FilterCall("_is_filtered_out", checkpoint.required,
                          DOMAIN checkpoint.kwargs,
                          Paths(GetFiltersWithParameter(filters, checkpoint.required)),
                          IsFilteredOut(filters, checkpoint.required, checkpoint.kwargs))
    /\ UNCHANGED <<fs, prompt, auditvars, pluginvars, filters, available_transformers, stream>>

NextFilters ==
    \/ \E parameters \in ParameterSets : CallGetFiltersWithParameter(parameters)
    \/ \E checkpoint \in Checkpoints : CallIsFilteredOut(checkpoint)

SpecFilters == InitFilters /\ [][NextFilters]_vars

\* the active filter of that path, and its place in the registry
IndexOf(path) == CHOOSE i \in 1..Len(filters) : filters[i].path = path
FilterAt(path) == filters[IndexOf(path)]
IsEligible(path) == \E k \in 1..Len(done.eligible) : done.eligible[k] = path
InRegistryOrder(paths) ==
    \A k, l \in 1..Len(paths) : k < l => IndexOf(paths[k]) < IndexOf(paths[l])
IsDispatch == done.op = "_is_filtered_out"
Invocations == Len(done.invoked)

\* ------------------------------------------------------------------------
\* C16  get_filters_with_parameter(P) returns exactly the active filters
\* whose declared parameter names include every name of P, in registry order;
\* so a filter declaring {filename, secret} is returned for P = {secret} and
\* is not returned for P = {line}.
\* ------------------------------------------------------------------------
C16_EligibleAreSupersets ==
    done.op = "get_filters_with_parameter" =>
        /\ \A i \in 1..Len(filters) :
              IsEligible(filters[i].path)
                  <=> \A p \in done.parameters : p \in filters[i].injectable_variables
        /\ InRegistryOrder(done.eligible)
        /\ \A i \in 1..Len(filters) :
              filters[i].injectable_variables = {"filename", "secret"} =>
                  /\ done.parameters = {"secret"} => IsEligible(filters[i].path)
                  /\ done.parameters = {"line"} => ~IsEligible(filters[i].path)

\* asked for {secret} under a registry that holds a line filter, the
\* {filename, secret} filter and a secret filter, in that order
C16_SecretFiltersPicked ==
    /\ done.op = "get_filters_with_parameter"
    /\ done.parameters = {"secret"}
    /\ Paths(filters) = <<"by_line", "by_filename_and_secret", "by_secret">>
    /\ done.eligible = <<"by_filename_and_secret", "by_secret">>

\* ------------------------------------------------------------------------
\* C17  (as claimed) At the file-level checkpoint, which supplies filename
\* alone, no filter that declares secret is invoked: neither one declaring
\* {secret} nor one declaring {filename, secret}.
\* ------------------------------------------------------------------------
C17_FileLevel == IsDispatch /\ done.keys = {"filename"}

C17_NoSecretFilterInvokedAtFileLevel ==
    C17_FileLevel =>
        \A k \in 1..Invocations :
            "secret" \notin FilterAt(done.invoked[k].path).injectable_variables

\* ------------------------------------------------------------------------
\* C17  (amended) At the file-level checkpoint the filters invoked all
\* declare filename, so a filter declaring {secret} alone is never invoked
\* and never skips a file.  A filter declaring {filename, secret} is
\* eligible and is invoked, with filename alone, unless an earlier filter
\* has suppressed; when secret has no default that invocation fails with
\* TypeError, nothing is raised by the dispatcher and the filter is not the
\* one that skips the file.
\* ------------------------------------------------------------------------
C17_FileLevelInvocations ==
    C17_FileLevel =>
        /\ done.raised = ""
        /\ \A k \in 1..Invocations :
              LET f == FilterAt(done.invoked[k].path)
              IN  /\ "filename" \in f.injectable_variables
                  /\ "secret" \in f.required =>
                        /\ done.invoked[k].outcome = RaisedError("TypeError")
                        /\ done.log # None => done.log[1].due_to # f.path
        /\ \A i \in 1..Len(filters) :
              (/\ filters[i].injectable_variables = {"filename", "secret"}
               /\ \A k \in 1..Invocations :
                     IndexOf(done.invoked[k].path) < i
                         => done.invoked[k].outcome # ReturnValue(TRUE))
              => \E k \in 1..Invocations : done.invoked[k].path = filters[i].path

\* the {filename, secret} filter was invoked at file level and failed, and
\* the filename filter after it skipped the file
C17_SecretFilterTriedAtFileLevel ==
    /\ C17_FileLevel
    /\ Invocations = 2
    /\ done.invoked[1] = [path |-> "by_filename_and_secret",
                          outcome |-> RaisedError("TypeError")]
    /\ done.result
    /\ done.log[1].due_to = "by_filename"

\* ------------------------------------------------------------------------
\* C18  In _is_filtered_out a filter whose invocation fails with TypeError
\* does not suppress: the dispatcher raises nothing, goes on to the next
\* eligible filter if there is one, and answers true exactly when some
\* invoked filter returned true.
\* ------------------------------------------------------------------------
C18_TypeErrorSwallowed ==
    IsDispatch =>
        /\ done.raised = ""
        /\ \A k \in 1..Invocations :
              done.invoked[k].outcome.raised = "TypeError" =>
                  /\ k < Len(done.eligible) => Invocations > k
                  /\ done.log # None => done.log[1].due_to # done.invoked[k].path
        /\ done.result
              <=> \E k \in 1..Invocations : done.invoked[k].outcome = ReturnValue(TRUE)

\* an invocation failed with TypeError, a later filter answered false and the
\* dispatcher answered false
C18_FailedFilterPassedOver ==
    /\ IsDispatch
    /\ Invocations = 2
    /\ done.invoked[1].outcome = RaisedError("TypeError")
    /\ done.invoked[2].outcome = ReturnValue(FALSE)
    /\ ~done.result
    /\ done.raised = ""

\* ------------------------------------------------------------------------
\* C19  _is_filtered_out invokes the eligible filters in registry order and
\* stops at the first that returns true: it then answers true and logs that
\* filter, and no later filter is invoked; it answers false only once every
\* eligible filter has been invoked.
\* ------------------------------------------------------------------------
C19_StopsAtFirstTrue ==
    IsDispatch =>
        /\ InRegistryOrder(done.eligible)
        /\ Invocations <= Len(done.eligible)
        /\ \A k \in 1..Invocations : done.invoked[k].path = done.eligible[k]
        /\ \A k \in 1..Invocations - 1 : done.invoked[k].outcome # ReturnValue(TRUE)
        /\ IF Invocations > 0 /\ done.invoked[Invocations].outcome = ReturnValue(TRUE)
           THEN /\ done.result
                /\ done.log # None
                /\ done.log[1].due_to = done.invoked[Invocations].path
           ELSE /\ ~done.result
                /\ done.log = None
                /\ Invocations = Len(done.eligible)

\* the first eligible filter returned true and the two eligible filters after
\* it were not invoked
C19_LaterFiltersNotInvoked ==
    /\ IsDispatch
    /\ done.result
    /\ Invocations = 1
    /\ Len(done.eligible) = 3


\* ------------------------------------------------------------------------
\* Scan orchestrator (core/scan.py)
\* ------------------------------------------------------------------------
\* line 29: the default of CHECKOV_MIN_LINE_LENGTH
MIN_LINE_LENGTH == 5

\* number of characters of the candidate strings
StrLen(v) == IF v = "A" THEN 8 ELSE 2

\* characters a word takes in the text
CharCount(w) ==
    IF IsSpace(w) THEN 1 ELSE StrLen(w.val) + (IF w.quoted THEN 2 ELSE 0)

\* len(line)
RECURSIVE LineLength(_)
LineLength(line) ==
    IF line = <<>> THEN 0 ELSE CharCount(Head(line)) + LineLength(Tail(line))

RECURSIVE LStrip(_)
LStrip(line) ==
    IF line = <<>> THEN <<>>
    ELSE IF IsSpace(line[1]) THEN LStrip(Tail(line))
    ELSE line

\* str.strip() on a line of words
Strip(line) == LStrip(RStrip(line))

\* an indented short word: five characters and more as written, two once
\* stripped
Space == Word(FALSE, " ")
ShortLine == <<Space, Space, Space, Word(FALSE, "B")>>
ScanLineVals == LineVals \cup {ShortLine}

\* get_plugins(): the active plugins, in order
Plugins == <<FromSecretType(HexType), FromSecretType(KeywordType)>>

\* the length test applied to the line as read
TooShort_Unstripped(raw) == LineLength(raw) < MIN_LINE_LENGTH

\* lines 323-326: the stripped line has too few characters
TooShort(raw) == LineLength(Strip(raw)) < MIN_LINE_LENGTH

\* _scan_line for one plugin (lines 379-400) under the active filters,
\* followed by the context filter of its caller (lines 358-365, 138-145): the
\* analyze_line call made, the checkpoints run, in order, and the secrets that
\* pass the secret-level and the context-level checkpoint
ScanLineUnder(active, plugin, filename, line, line_number, context, enable_eager_search) ==
    LET sc(s) == SecretCheckpoint(s.filename, s.secret_value[1],
                                  plugin.secret_type, line)
        cc(s) == ContextCheckpoint(s.filename, s.secret_value[1],
                                   plugin.secret_type, line, context)
        passed(s) == ~IsFilteredOut(active, sc(s).required, sc(s).kwargs).result
        kept(s) ==
            /\ passed(s)
            /\ ~IsFilteredOut(active, cc(s).required, cc(s).kwargs).result
        scanned(secrets) ==
            [call |-> [plugin |-> plugin.secret_type, filename |-> filename,
                       line |-> line, line_number |-> line_number,
                       enable_eager_search |-> enable_eager_search],
             checkpoints |->
                Flatten([i \in 1..Len(secrets) |->
                            <<sc(secrets[i]).required>>
                                \o (IF passed(secrets[i])
                                    THEN <<cc(secrets[i]).required>> ELSE <<>>)]),
             yielded |-> SelectSeq(secrets, kept)]
    IN  scanned(SetToSeq(AnalyzeLine(plugin, filename, line, line_number,
                                     enable_eager_search)))

\* _scan_line as _process_line_based_plugins calls it (lines 350-357): no
\* eager search is asked for
ScanLine(plugin, filename, line, line_number, context) ==
    ScanLineUnder(filters, plugin, filename, line, line_number, context, FALSE)

\* read_raw_lines(filename) (lines 32-35): the error of open() or of
\* readlines(), "" when the file can be read; a file that cannot be read has
\* no earlier result in the function's cache
ReadRawLinesError(filename) == fs[filename].error

\* what the pipeline did with one line: "short", "raised" (the raw lines of
\* the file could not be read), "filtered" or "scanned";
\* whether the line-level checkpoint ran; the analyze_line calls; the secrets
\* yielded
LineEvent(line_number, line, outcome, checkpoint_ran, calls, yielded) ==
    [line_number |-> line_number, line |-> line, outcome |-> outcome,
     checkpoint_ran |-> checkpoint_ran, calls |-> calls, yielded |-> yielded]

\* lines 322-366: one iteration of the loop over the lines
ProcessLine(filename, line_content, line_number, raw) ==
    LET line == Strip(raw)
        code_snippet == CodeSnippet(line_content, line_number)
        lc == LineCheckpoint(filename, line, code_snippet)
    IN  IF TooShort(raw)
        THEN LineEvent(line_number, line, "short", FALSE, <<>>, <<>>)
        ELSE IF ReadRawLinesError(filename) # ""
        THEN LineEvent(line_number, line, "raised", FALSE, <<>>, <<>>)
        ELSE IF IsFilteredOut(filters, lc.required, lc.kwargs).result
        THEN LineEvent(line_number, line, "filtered", TRUE, <<>>, <<>>)
        ELSE LET scanned(s) ==
                    LineEvent(line_number, line, "scanned", TRUE,
                              [p \in 1..Len(Plugins) |-> s[p].call],
                              Flatten([p \in 1..Len(Plugins) |-> s[p].yielded]))
             IN  scanned([p \in 1..Len(Plugins) |->
                            ScanLine(Plugins[p], filename, line, line_number,
                                     code_snippet)])

\* list(enumerate(lines, start=1))
Enumerate(lines) == [i \in 1..Len(lines) |-> [line_number |-> i, line |-> lines[i]]]

\* _process_line_based_plugins(lines, filename): what happened to each line,
\* up to the line at which an error left the generator
ProcessLineBasedPlugins(lines, filename) ==
    LET line_content == [i \in 1..Len(lines) |-> lines[i].line]
        upto_error(each) ==
            LET raising == {i \in 1..Len(each) : each[i].outcome = "raised"}
            IN  IF raising = {} THEN each
                ELSE SubSeq(each, 1, CHOOSE i \in raising : \A j \in raising : i <= j)
    IN  upto_error([i \in 1..Len(lines) |->
                        ProcessLine(filename, line_content, lines[i].line_number,
                                    lines[i].line)])

\* the error that ended _process_line_based_plugins, "" when it ran to its end
RaisedBy(events, filename) ==
    IF events # <<>> /\ events[Len(events)].outcome = "raised"
    THEN ReadRawLinesError(filename) ELSE ""

\* the secrets grouped by plugin first and by line second
YieldedBy_PluginMajor(events) ==
    LET by_line == Flatten([i \in 1..Len(events) |-> events[i].yielded])
    IN  Flatten([p \in 1..Len(Plugins) |->
                    SelectSeq(by_line, LAMBDA r : r.type = Plugins[p].secret_type)])

\* the secrets _process_line_based_plugins yields, in the order it yields them
YieldedBy(events) == Flatten([i \in 1..Len(events) |-> events[i].yielded])

\* the transformed lines kept even when there are none
FirstLines_NoFallback(transformed, raw) ==
    IF transformed = None THEN <<>> ELSE transformed[1]

\* lines 270-272 of _get_lines_from_file: the lines of the first pass
FirstLines(transformed, raw) ==
    IF ~Truthy(transformed) THEN raw ELSE transformed[1]

\* the consumer that stops at the first secret
Consume_FirstOnly(secrets) == IF secrets = <<>> THEN <<>> ELSE <<secrets[1]>>

\* lines 160-165 of scan_file: every secret of the pass is yielded
Consume(secrets) == secrets

\* the flag never set
HasSecret_Never(secrets) == FALSE

\* lines 158-168 of scan_file: has_secret after a pass
HasSecret(secrets) == Len(secrets) > 0

\* the steps of one scan_file call, in the order they happen
Step(ev, eager, lines, per_line, yielded) ==
    [ev |-> ev, eager |-> eager, lines |-> lines, per_line |-> per_line,
     yielded |-> yielded]

\* a scan that ran to its end, and one that an error ended
Scanned(trace, yielded) == [trace |-> trace, yielded |-> yielded, raised |-> ""]
Stopped(trace, yielded, raised) ==
    [trace |-> trace, yielded |-> yielded, raised |-> raised]

\* lines 273-275 of _get_lines_from_file: the error caught around the first
\* read of the file
GetLinesCaught(error) == error = "UnicodeDecodeError"

\* lines 169-171 of scan_file: the error caught around the whole scan
ScanFileCaught(error) == error = "IOError"

PassOver(lines, filename) ==
    LET pass(events) ==
            Step("pass", FALSE, lines, events, Consume(YieldedBy(events)))
    IN  pass(ProcessLineBasedPlugins(Enumerate(lines), filename))

\* scan_file(filename) consumed to its end, with _get_lines_from_file as the
\* generator it iterates
ScanFileOn(filename) ==
    LET fc == FileCheckpoint(filename)
        content == fs[filename]
        all == ReadLines(content.text)
        raw(lazy) == SubSeq(all, lazy.pos + 1, Len(all))
        begun(lazy, first) ==
            <<Step("get_transformed_file", FALSE,
                   IF lazy.result = None THEN <<>> ELSE lazy.result[1],
                   <<>>, <<>>)>>
            \o (IF ~Truthy(lazy.result)
                THEN <<Step("readlines", FALSE, raw(lazy), <<>>, <<>>)>>
                ELSE <<>>)
            \o <<first>>
        retried(lazy, first, eager) ==
            begun(lazy, first)
            \o <<Step("seek", FALSE, <<>>, <<>>, <<>>),
                 Step("get_transformed_file", TRUE,
                      IF eager.result = None THEN <<>> ELSE eager.result[1],
                      <<>>, <<>>)>>
        passes(lazy, first, eager, second) ==
            IF HasSecret(first.yielded) THEN Scanned(begun(lazy, first), first.yielded)
            ELSE IF ~Truthy(eager.result)
            THEN Scanned(retried(lazy, first, eager), first.yielded)
            ELSE Scanned(Append(retried(lazy, first, eager), second),
                         first.yielded \o second.yielded)
        transformed(lazy, eager) ==
            passes(lazy, PassOver(FirstLines(lazy.result, raw(lazy)), filename),
                   eager, PassOver(eager.result[1], filename))
    IN  IF IsFilteredOut(filters, fc.required, fc.kwargs).result
        THEN Scanned(<<Step("file filtered", FALSE, <<>>, <<>>, <<>>)>>, <<>>)
        ELSE IF content.error # ""
        THEN \* open() (line 266) or the first read (lines 270-272) raises
             Stopped(<<Step("unreadable", FALSE, <<>>, <<>>, <<>>)>>, <<>>,
                     IF GetLinesCaught(content.error) \/ ScanFileCaught(content.error)
                     THEN "" ELSE content.error)
        ELSE transformed(GetTransformedFileOn(available_transformers, content.parse,
                                              filename, FALSE, 0),
                         GetTransformedFileOn(available_transformers, content.parse,
                                              filename, TRUE, SeekStart(Len(all))))

\* ------------------------------------------------------------------------
\* SpecScan: scan_file called on the files of a tree, one of which holds any
\* text of up to MaxTextLines lines that the transformers turn into lines or
\* decline, with no filter active or with one filter per checkpoint
\* ------------------------------------------------------------------------
\* longest text of a scanned file, in lines
MaxTextLines == 2

\* what the lazy and the eager transformer make of the scanned file
LazyOutcomes ==
    {ParsingError, Parsed(<<>>), Parsed(<<QuotedLine>>), Parsed(<<ShortLine>>)}
EagerOutcomes ==
    {ParsingError, Parsed(<<>>), Parsed(<<QuotedLine>>),
     Parsed(<<BareLine, QuotedLine>>)}

ScanFileContents ==
    [text : SeqsUpTo(ScanLineVals, MaxTextLines),
     parse : {<<l, e>> : l \in LazyOutcomes, e \in EagerOutcomes},
     error : {""},
     patch : {<<>>}]

\* one filter for each checkpoint: the second file excluded, the line of the
\* bare string excluded, the secret value B excluded
StockFilters ==
    << Filter("should_exclude_file", {"filename"}, {"filename"},
              [filename |-> {"f2"}, line |-> {}, secret |-> {}]),
       Filter("should_exclude_line", {"line"}, {"line"},
              [filename |-> {}, line |-> {BareLine}, secret |-> {}]),
       Filter("should_exclude_secret", {"secret"}, {"secret"},
              [filename |-> {}, line |-> {}, secret |-> {"B"}]) >>

InitScan ==
    /\ fs \in {[f \in Files |-> IF f = "f1" THEN c ELSE OtherFile] :
                    c \in ScanFileContents}
    /\ slot = None
    /\ instances = 0
    /\ issued = [f \in Files |-> 0]
    /\ last = InitLast
    /\ prompt = NoPrompt
    /\ PluginIdle
    /\ threads = NoThreads
    /\ filters \in {<<>>, StockFilters}
    /\ available_transformers = Transformers
    /\ stream = NoStream
    /\ done = NothingDone

\* scan_file(filename), the generator consumed to its end
ScanFile(filename) ==
    \E r \in {ScanFileOn(filename)} :
        /\ done' = [op |-> "scan_file", filename |-> filename,
                    trace |-> r.trace, yielded |-> r.yielded,
                    raised |-> r.raised]
        /\ UNCHANGED <<fs, prompt, auditvars, pluginvars, filters, available_transformers, stream>>

NextScan == \E filename \in Files : ScanFile(filename)

SpecScan == InitScan /\ [][NextScan]_vars

\* ------------------------------------------------------------------------
\* Notions the scan properties are stated in
\* ------------------------------------------------------------------------
IsScan == done.op = "scan_file"
Steps == Len(done.trace)
IsPass(k) == done.trace[k].ev = "pass"
IsEagerAttempt(k) ==
    done.trace[k].ev = "get_transformed_file" /\ done.trace[k].eager
IsFirstPass(k) == IsPass(k) /\ \A j \in 1..k - 1 : ~IsPass(j)

\* under the stock filters the line of the bare string and the value B are
\* excluded; with no filter active nothing is
LineExcluded(line) == filters # <<>> /\ line = BareLine
ValueExcluded(s) == filters # <<>> /\ s.secret_value = Some("B")

\* the secrets the plugins find in `lines` that no checkpoint holds back
Reportable(filename, lines) ==
    UNION {{s \in AnalyzeLine(Plugins[p], filename, Strip(lines[i]), i, FALSE) :
                ~ValueExcluded(s)} :
            p \in 1..Len(Plugins),
            i \in {j \in 1..Len(lines) :
                      /\ LineLength(Strip(lines[j])) >= MIN_LINE_LENGTH
                      /\ ~LineExcluded(Strip(lines[j]))}}

Range(s) == {s[k] : k \in 1..Len(s)}

\* ------------------------------------------------------------------------
\* C11  (as claimed) A plain scan_file call reports only the first secret in
\* line order: no other secret, found on a later line of the same file, is
\* yielded.
\* ------------------------------------------------------------------------
C11_OnlyFirstSecretReported ==
    IsScan =>
        \A k \in 1..Len(done.yielded) :
            done.yielded[k].line_number > done.yielded[1].line_number
                => SameSecret(done.yielded[k], done.yielded[1])

\* ------------------------------------------------------------------------
\* C11  (amended) A plain scan_file call yields every secret the first pass
\* over the file finds on any of its lines and no checkpoint holds back, in
\* line order.  What is left out once the first pass yielded something is
\* the eager pass: its secrets are yielded only when the first pass yielded
\* none.
\* ------------------------------------------------------------------------
C11_EverySecretOfFirstPassReported ==
    IsScan =>
        /\ \A k \in 1..Len(done.yielded) - 1 :
              done.yielded[k].line_number <= done.yielded[k + 1].line_number
        /\ \A k \in 1..Steps :
              IsFirstPass(k) =>
                  LET found == Reportable(done.filename, done.trace[k].lines)
                  IN  IF found # {} THEN Range(done.yielded) = found
                      ELSE IF IsPass(Steps) /\ Steps > k
                      THEN Range(done.yielded)
                              = Reportable(done.filename, done.trace[Steps].lines)
                      ELSE done.yielded = <<>>

\* secrets of the first and of the second line of one file were yielded
C11_SecretsOfTwoLinesReported ==
    /\ IsScan
    /\ \E k, l \in 1..Len(done.yielded) :
          /\ done.yielded[k].line_number = 1
          /\ done.yielded[l].line_number = 2
          /\ done.yielded[k].secret_hash # done.yielded[l].secret_hash
    /\ \A k \in 1..Steps : ~IsEagerAttempt(k)

\* ------------------------------------------------------------------------
\* C12  In scan_file the eager transformation is requested only after the
\* first pass has been gone through without yielding a secret; when the
\* first pass yielded a secret, no eager transformation is requested and
\* that pass is the last thing the call does.
\* ------------------------------------------------------------------------
C12_EagerOnlyAfterFruitlessFirstPass ==
    IsScan =>
        /\ \A k \in 1..Steps :
              IsEagerAttempt(k) =>
                  \E j \in 1..k - 1 :
                      IsFirstPass(j) /\ done.trace[j].yielded = <<>>
        /\ \A j \in 1..Steps :
              (IsFirstPass(j) /\ done.trace[j].yielded # <<>>) =>
                  /\ j = Steps
                  /\ \A k \in 1..Steps : ~IsEagerAttempt(k)
                  /\ done.yielded = done.trace[j].yielded

\* the first pass yielded a secret of a file the eager transformer parses:
\* the eager lines were never asked for
C12_EagerLinesLeftUnread ==
    /\ IsScan
    /\ done.yielded # <<>>
    /\ fs[done.filename].parse[2].ok
    /\ fs[done.filename].parse[2].out # <<>>
    /\ \A k \in 1..Steps : ~IsEagerAttempt(k)

\* ------------------------------------------------------------------------
\* C13  (as claimed) In the scan path raw lines are used only after eager
\* mode has failed to produce lines: every read of the raw lines comes after
\* an eager transformation that gave none.
\* ------------------------------------------------------------------------
C13_RawLinesOnlyAfterEager ==
    IsScan =>
        \A k \in 1..Steps :
            done.trace[k].ev = "readlines" =>
                \E j \in 1..k - 1 : IsEagerAttempt(j) /\ done.trace[j].lines = <<>>

\* ------------------------------------------------------------------------
\* C13  (amended) In the scan path, when the lazy transformation of a file
\* produces no lines the raw lines are read at once and scanned as the first
\* pass; the eager transformation is requested only after that pass, and
\* only when it yielded no secret.  Raw lines are never read after the eager
\* attempt, and when eager mode gives no lines nothing more is scanned.
\* ------------------------------------------------------------------------
C13_RawLinesBeforeEager ==
    (IsScan /\ done.trace[1].ev = "get_transformed_file") =>
        /\ ~done.trace[1].eager
        /\ done.trace[1].lines = <<>> =>
              /\ done.trace[2].ev = "readlines"
              /\ done.trace[2].lines = ReadLines(fs[done.filename].text)
              /\ IsPass(3)
              /\ done.trace[3].lines = done.trace[2].lines
        /\ \A k \in 1..Steps :
              IsEagerAttempt(k) =>
                  /\ \A j \in k + 1..Steps : done.trace[j].ev # "readlines"
                  /\ \E j \in 1..k - 1 : IsPass(j) /\ done.trace[j].yielded = <<>>
                  /\ done.trace[k].lines = <<>> => k = Steps

\* the raw lines were scanned first and gave nothing, then the eager lines
\* gave a secret
C13_EagerAfterRawLines ==
    /\ IsScan
    /\ Steps = 6
    /\ done.trace[2].ev = "readlines"
    /\ done.trace[2].lines # <<>>
    /\ IsPass(3)
    /\ IsEagerAttempt(5)
    /\ IsPass(6)
    /\ done.yielded # <<>>

\* ------------------------------------------------------------------------
\* C20  In _process_line_based_plugins no analyze_line is invoked for a line
\* whose stripped length is below MIN_LINE_LENGTH, nor for a line the
\* line-level checkpoint suppresses; the line-level checkpoint is not run
\* for a too-short line; and every other line of the pass, whatever came
\* before it, is given to every plugin.
\* ------------------------------------------------------------------------
C20_SkippedLinesReachNoPlugin ==
    IsScan =>
        \A k \in 1..Steps :
            IsPass(k) =>
                /\ Len(done.trace[k].per_line) = Len(done.trace[k].lines)
                /\ \A i \in 1..Len(done.trace[k].lines) :
                      LET line == Strip(done.trace[k].lines[i])
                          e == done.trace[k].per_line[i]
                      IN  /\ e.line_number = i
                          /\ LineLength(line) < MIN_LINE_LENGTH =>
                                e.calls = <<>> /\ ~e.checkpoint_ran
                          /\ LineExcluded(line) => e.calls = <<>>
                          /\ (LineLength(line) >= MIN_LINE_LENGTH /\ ~LineExcluded(line)) =>
                                /\ e.checkpoint_ran
                                /\ Len(e.calls) = Len(Plugins)
                                /\ \A p \in 1..Len(Plugins) :
                                      /\ e.calls[p].plugin = Plugins[p].secret_type
                                      /\ e.calls[p].line = line
                                      /\ e.calls[p].line_number = i

\* a line too short once stripped (long enough as written) was passed over
\* and the line after it was scanned and gave a secret
C20_ScanGoesOnAfterSkippedLine ==
    /\ IsScan
    /\ \E k \in 1..Steps :
          /\ IsPass(k)
          /\ Len(done.trace[k].lines) = 2
          /\ LineLength(done.trace[k].lines[1]) >= MIN_LINE_LENGTH
          /\ done.trace[k].per_line[1].outcome = "short"
          /\ done.trace[k].per_line[2].outcome = "scanned"
          /\ done.trace[k].per_line[2].yielded # <<>>

\* ------------------------------------------------------------------------
\* SpecPlugin: the operations of a plugin called on their own: an entropy
\* plugin constructed with any limit from below 0 to above 8 bits, its
\* analyze_string and analyze_line on a line, and analyze_line of a keyword
\* detector whose verify returns or raises anything
\* ------------------------------------------------------------------------
\* how far beyond [0, 8] the limits tried reach, in tenths of a bit
LimitMargin == 1

Limits == (0 - LimitMargin)..(MaxEntropy + LimitMargin)

\* a quoted string of low entropy beside a bare one of high entropy, and two
\* quoted strings
LowQuotedLine == <<Word(TRUE, "B"), Space, Word(FALSE, "A")>>
TwoQuotedLine == <<Word(TRUE, "A"), Space, Word(TRUE, "B")>>
PluginLineVals == ScanLineVals \cup {LowQuotedLine, TwoQuotedLine}

\* the entropy plugins that can be constructed
EntropyPlugins ==
    {HighEntropyStringsPlugin(HexType, l).plugin[1] :
        l \in {k \in Limits : HighEntropyStringsPlugin(HexType, k).plugin # None}}

InitPlugin ==
    /\ fs = [f \in Files |-> OtherFile]
    /\ slot = None
    /\ instances = 0
    /\ issued = [f \in Files |-> 0]
    /\ last = InitLast
    /\ prompt = NoPrompt
    /\ PluginIdle
    /\ threads = NoThreads
    /\ ScanIdle

\* HighEntropyStringsPlugin(charset, limit)
Construct(limit) ==
    LET r == HighEntropyStringsPlugin(HexType, limit)
    IN  /\ done' = [op |-> "construct", limit |-> limit, plugin |-> r.plugin,
                    raised |-> r.raised]
        /\ UNCHANGED <<fs, prompt, auditvars, pluginvars, filters, available_transformers, stream>>

\* plugin.analyze_string(line) of an entropy plugin
CallEntropyAnalyzeString(plugin, line) ==
    /\ done' = [op |-> "entropy_analyze_string", plugin |-> plugin, line |-> line,
                output |-> EntropyAnalyzeString(line, TRUE)]
    /\ UNCHANGED <<fs, prompt, auditvars, pluginvars, filters, available_transformers, stream>>

\* plugin.analyze_line(filename, line, line_number, enable_eager_search) of
\* an entropy plugin
CallEntropyAnalyzeLine(plugin, line, enable_eager_search) ==
    LET r == EntropyAnalyzeLineOn(plugin, "f1", line, 1, enable_eager_search)
    IN  /\ done' = [op |-> "entropy_analyze_line", plugin |-> plugin,
                    line |-> line, enable_eager_search |-> enable_eager_search,
                    output |-> r.output, patterns |-> r.patterns]
        /\ UNCHANGED <<fs, prompt, auditvars, pluginvars, filters, available_transformers, stream>>

\* plugin.analyze_line(filename, line, line_number) of a keyword detector
\* whose verify method behaves as verify, with or without the verification
\* policy filter in the settings
CallAnalyzeLine(verify, line, verifying) ==
    LET plugin == FromSecretType(KeywordType)
        matches == RegexAnalyzeString(line)
        r == AnalyzeLineOn(plugin, verify, matches, "f1", 1, verifying)
    IN  /\ done' = [op |-> "analyze_line", line |-> line, verify |-> verify,
                    verifying |-> verifying, matches |-> matches,
                    output |-> r.output, raised |-> r.raised]
        /\ UNCHANGED <<fs, prompt, auditvars, pluginvars, filters, available_transformers, stream>>

NextPlugin ==
    \/ \E limit \in Limits : Construct(limit)
    \/ \E plugin \in EntropyPlugins, line \in PluginLineVals :
            CallEntropyAnalyzeString(plugin, line)
    \/ \E plugin \in EntropyPlugins, line \in PluginLineVals,
          enable_eager_search \in BOOLEAN :
            CallEntropyAnalyzeLine(plugin, line, enable_eager_search)
    \/ \E verify \in [SecretValues -> VerifyOutcomes], line \in PluginLineVals,
          verifying \in BOOLEAN :
            CallAnalyzeLine(verify, line, verifying)

SpecPlugin == InitPlugin /\ [][NextPlugin]_vars

\* the secret values of a set of records
ValuesOf(records) == {s.secret_value[1] : s \in records}

\* ------------------------------------------------------------------------
\* C24  For every match a plugin extracts from a line, analyze_line produces
\* a candidate record whatever the outcome of the plugin's verify step: when
\* verify raises any error the record is still produced, with is_verified
\* false, and analyze_line raises nothing.
\* ------------------------------------------------------------------------
C24_VerificationNeverRaises ==
    done.op = "analyze_line" =>
        /\ done.raised = ""
        /\ \A m \in done.matches :
                \E s \in done.output :
                    /\ s.secret_value = Some(m)
                    /\ (done.verify[m].raised # "" => ~s.is_verified)

\* ------------------------------------------------------------------------
\* C26  Entropy plugin's analyze_line: when the quoted analysis of the line
\* yields nothing and eager search is requested, the line is analyzed again
\* under the non-quoted pattern and the candidates of that analysis are
\* returned; when eager search is not requested, or the quoted analysis
\* yields something, the non-quoted pattern is not used.
\* ------------------------------------------------------------------------
C26_NonQuotedOnlyOnFruitlessEagerSearch ==
    done.op = "entropy_analyze_line" =>
        IF EntropyAnalyzeString(done.line, TRUE) = {} /\ done.enable_eager_search
        THEN /\ done.patterns = <<"quoted", "non_quoted">>
             /\ ValuesOf(done.output) = EntropyAnalyzeString(done.line, FALSE)
        ELSE /\ done.patterns = <<"quoted">>
             /\ ValuesOf(done.output) \subseteq EntropyAnalyzeString(done.line, TRUE)

\* eager search on a line with only a bare string: the retry returned it
C26_BareStringFoundOnRetry ==
    /\ done.op = "entropy_analyze_line"
    /\ done.enable_eager_search
    /\ done.line = BareLine
    /\ done.patterns = <<"quoted", "non_quoted">>
    /\ ValuesOf(done.output) = {"A"}

\* ------------------------------------------------------------------------
\* C27  Constructing an entropy plugin raises ValueError and yields no
\* plugin object for every limit below 0 or above 8, and yields a plugin with
\* that limit for every limit from 0 to 8, both ends included.
\* ------------------------------------------------------------------------
C27_LimitRange ==
    done.op = "construct" =>
        IF done.limit < 0 \/ done.limit > 80
        THEN /\ done.raised = "ValueError"
             /\ done.plugin = None
        ELSE /\ done.raised = ""
             /\ done.plugin # None
             /\ done.plugin[1].entropy_limit = done.limit

\* a plugin constructed with the limit 8 exactly
C27_ConstructedAtEight ==
    /\ done.op = "construct"
    /\ done.limit = 80
    /\ done.plugin # None

\* ------------------------------------------------------------------------
\* C30  The entropy cutoff is applied in analyze_line to the candidates of
\* the quoted pattern and to nothing else: the records returned from the
\* quoted analysis are exactly the candidates whose entropy is strictly above
\* the limit, while the non-quoted retry returns every candidate it finds and
\* analyze_string returns every quoted candidate.
\* ------------------------------------------------------------------------
C30_CutoffOnQuotedCandidatesOnly ==
    /\ done.op = "entropy_analyze_line" =>
        IF done.patterns = <<"quoted">>
        THEN ValuesOf(done.output) =
                {v \in EntropyAnalyzeString(done.line, TRUE) :
                    ShannonEntropy(v) > done.plugin.entropy_limit}
        ELSE ValuesOf(done.output) = EntropyAnalyzeString(done.line, FALSE)
    /\ done.op = "entropy_analyze_string" =>
        done.output = {done.line[i].val :
                        i \in {j \in 1..Len(done.line) : done.line[j].quoted}}

\* a quoted candidate whose entropy equals the limit was dropped while
\* another was returned
C30_CandidateAtLimitDropped ==
    /\ done.op = "entropy_analyze_line"
    /\ done.patterns = <<"quoted">>
    /\ \E v \in EntropyAnalyzeString(done.line, TRUE) :
            /\ ShannonEntropy(v) = done.plugin.entropy_limit
            /\ v \notin ValuesOf(done.output)
    /\ done.output # {}

\* ------------------------------------------------------------------------
\* RegexBasedDetector.build_assignment_regex (plugins/base.py): patterns as
\* sequences of atoms, texts as sequences of characters
\* ------------------------------------------------------------------------
LowerCase == <<"a", "b", "c", "d", "e", "f", "g", "h", "i", "j", "k", "l", "m",
               "n", "o", "p", "q", "r", "s", "t", "u", "v", "w", "x", "y", "z">>
UpperCase == <<"A", "B", "C", "D", "E", "F", "G", "H", "I", "J", "K", "L", "M",
               "N", "O", "P", "Q", "R", "S", "T", "U", "V", "W", "X", "Y", "Z">>
Digits == {"0", "1", "2", "3", "4", "5", "6", "7", "8", "9"}
Letters == {LowerCase[i] : i \in 1..Len(LowerCase)}
               \cup {UpperCase[i] : i \in 1..Len(UpperCase)}

\* re.IGNORECASE: a character and its lower-case form match each other
Fold(c) ==
    IF \E i \in 1..Len(UpperCase) : UpperCase[i] = c
    THEN LowerCase[CHOOSE i \in 1..Len(UpperCase) : UpperCase[i] = c]
    ELSE c

\* \w
IsWordChar(c) == c \in Letters \cup Digits \cup {"_"}

\* the atoms of a pattern: one literal character, a choice between patterns
\* (the first that lets the rest match is taken), a character repeated at
\* least min times, count characters of a class, and the look-behind of begin
Lit(c) == [k |-> "lit", c |-> c, min |-> 0, alts |-> <<>>, chars |-> {}]
Alt(alts) == [k |-> "alt", c |-> "", min |-> 0, alts |-> alts, chars |-> {}]
Rep(c, min) == [k |-> "rep", c |-> c, min |-> min, alts |-> <<>>, chars |-> {}]
Class(chars, count) ==
    [k |-> "class", c |-> "", min |-> count, alts |-> <<>>, chars |-> chars]
Begin == [k |-> "begin", c |-> "", min |-> 0, alts |-> <<>>, chars |-> {}]

\* a literal string as a pattern
Literal(text) == [i \in 1..Len(text) |-> Lit(text[i])]

\* the positions at which a match of the pattern that starts after pos
\* characters of the text can end
RECURSIVE MatchFrom(_, _, _)
MatchFrom(pattern, text, pos) ==
    IF pattern = <<>> THEN {pos}
    ELSE LET a == Head(pattern)
             after ==
                CASE a.k = "lit" ->
                        IF pos < Len(text) /\ Fold(text[pos + 1]) = Fold(a.c)
                        THEN {pos + 1} ELSE {}
                  [] a.k = "alt" ->
                        UNION {MatchFrom(a.alts[i], text, pos) : i \in 1..Len(a.alts)}
                  [] a.k = "rep" ->
                        {q \in (pos + a.min)..Len(text) :
                            \A i \in (pos + 1)..q : text[i] = a.c}
                  [] a.k = "class" ->
                        IF /\ pos + a.min <= Len(text)
                           /\ \A i \in (pos + 1)..(pos + a.min) :
                                Fold(text[i]) \in {Fold(c) : c \in a.chars}
                        THEN {pos + a.min} ELSE {}
                  [] a.k = "begin" ->
                        IF pos = 0 \/ ~IsWordChar(text[pos]) THEN {pos} ELSE {}
         IN  UNION {MatchFrom(Tail(pattern), text, q) : q \in after}

\* regex.search(text) / regex.findall(text): whether the pattern matches
\* somewhere in the text
Search(pattern, text) ==
    \E pos \in 0..Len(text) : MatchFrom(pattern, text, pos) # {}

\* line 199: (?:=|:|:=|=>| +|::)
Assignment ==
    Alt(<< Literal(<<"=">>), Literal(<<":">>), Literal(<<":", "=">>),
           Literal(<<"=", ">">>), <<Rep(" ", 1)>>, Literal(<<":", ":">>) >>)

\* build_assignment_regex (lines 193-215)
BuildAssignmentRegex(prefix_regex, secret_keyword_regex, secret_regex) ==
    LET begin == <<Begin>>
        opt_quote == <<Alt(<< Literal(<<"\"">>), Literal(<<"'">>), <<>> >>)>>
        opt_open_square_bracket == <<Alt(<< Literal(<<"[">>), <<>> >>)>>
        opt_close_square_bracket == <<Alt(<< Literal(<<"]">>), <<>> >>)>>
        opt_dash_underscore == <<Alt(<< Literal(<<"_">>), Literal(<<"-">>), <<>> >>)>>
        opt_space == <<Rep(" ", 0)>>
        assignment == <<Assignment>>
    IN  begin \o opt_open_square_bracket \o opt_quote \o prefix_regex
            \o opt_dash_underscore \o secret_keyword_regex \o opt_quote
            \o opt_close_square_bracket \o opt_space \o assignment \o opt_space
            \o opt_quote \o secret_regex \o opt_quote

\* ------------------------------------------------------------------------
\* SpecRegex: the pattern built for prefix "aws", keyword "secret" and value
\* "[A-Za-z0-9]{8}" searched in texts made of a name, a joiner, the keyword,
\* a separator and a value
\* ------------------------------------------------------------------------
AwsSecretRegex ==
    BuildAssignmentRegex(Literal(<<"a", "w", "s">>),
                         Literal(<<"s", "e", "c", "r", "e", "t">>),
                         <<Class(Letters \cup Digits, 8)>>)

Leads == {<<>>, <<"x">>, <<" ">>}
Names == {<<"a", "w", "s">>, <<"A", "W", "S">>}
Joiners == {<<"_">>, <<"-">>, <<>>, <<".">>}
Keyword == <<"s", "e", "c", "r", "e", "t">>
Separators ==
    {<<" ", "=", " ">>, <<"=">>, <<":">>, <<" ", ":", "=", " ">>, <<"=", ">">>,
     <<":", ":">>, <<" ">>, <<" ", " ">>, <<>>, <<"=", "=">>}
Quotes == {<<>>, <<"\"">>, <<"'">>}
Values ==
    {<<"A", "B", "C", "D", "E", "F", "G", "H">>,
     <<"A", "B", "C", "D", "E", "F", "G">>,
     <<"a", "b", "c", "1", "2", "3", "4", "5">>}

AssignmentTexts ==
    {l \o n \o j \o Keyword \o s \o q \o v \o q :
        l \in Leads, n \in Names, j \in Joiners, s \in Separators,
        q \in Quotes, v \in Values}

\* aws_secret = "ABCDEFGH"
QuotedAssignmentText ==
    <<"a", "w", "s", "_", "s", "e", "c", "r", "e", "t", " ", "=", " ", "\"",
      "A", "B", "C", "D", "E", "F", "G", "H", "\"">>

\* aws_secret ABCDEFGH
SpaceOnlyText ==
    <<"a", "w", "s", "_", "s", "e", "c", "r", "e", "t", " ",
      "A", "B", "C", "D", "E", "F", "G", "H">>

\* the text to search is chosen at the start
InitRegex ==
    /\ fs = [f \in Files |-> OtherFile]
    /\ slot = None
    /\ instances = 0
    /\ issued = [f \in Files |-> 0]
    /\ last = InitLast
    /\ prompt = NoPrompt
    /\ PluginIdle
    /\ threads = NoThreads
    /\ filters = <<>>
    /\ available_transformers = Transformers
    /\ stream = NoStream
    /\ done \in {[op |-> "text", text |-> t] : t \in AssignmentTexts}

\* regex.search(text) with the pattern built for aws / secret
CallSearch ==
    /\ done.op = "text"
    /\ done' = [op |-> "search", text |-> done.text,
                matched |-> Search(AwsSecretRegex, done.text)]
    /\ UNCHANGED <<fs, prompt, auditvars, pluginvars, filters, available_transformers, stream>>

NextRegex == CallSearch

SpecRegex == InitRegex /\ [][NextRegex]_vars

\* ------------------------------------------------------------------------
\* C28  The pattern built by build_assignment_regex for prefix "aws",
\* keyword "secret" and value "[A-Za-z0-9]{8}" matches the text
\* aws_secret = "ABCDEFGH" and does not match aws_secret ABCDEFGH, where only
\* a space stands between keyword and value.
\* ------------------------------------------------------------------------
C28_OperatorRequired ==
    done.op = "search" =>
        /\ done.text = QuotedAssignmentText => done.matched
        /\ done.text = SpaceOnlyText => ~done.matched

\* ------------------------------------------------------------------------
\* scan_diff and scan_line (core/scan.py)
\* ------------------------------------------------------------------------
\* a line of a hunk of the diff: added ("+"), removed ("-") or context (" ")
DiffKinds == {"added", "removed", "context"}
DiffLine(kind, value) == [kind |-> kind, value |-> value]

\* line.target_line_no of the i-th line of a hunk whose new side starts at
\* line 1: the lines of the new side are numbered in order, removed lines
\* are not part of it
TargetLineNo(patch, i) == Cardinality({j \in 1..i : patch[j].kind # "removed"})

\* every line of the new side taken, added or not
IsAdded_AnyTargetLine(l) == l.kind # "removed"

\* line 309: line.is_added
IsAdded(l) == l.kind = "added"

\* lines 304-310 of _get_lines_from_diff: (target_line_no, value) of the
\* added lines of a file of the diff, in the order of the diff
AddedLines(patch) ==
    LET added == SelectSeq([i \in 1..Len(patch) |-> i],
                           LAMBDA i : IsAdded(patch[i]))
    IN  [k \in 1..Len(added) |->
            [line_number |-> TargetLineNo(patch, added[k]),
             line |-> patch[added[k]].value \o <<Newline>>]]

\* PatchSet.from_string(diff): the files of the diff, in its order
PatchSet(order) ==
    LET changed == SelectSeq(order, LAMBDA f : fs[f].patch # <<>>)
    IN  [k \in 1..Len(changed) |-> [path |-> changed[k], lines |-> fs[changed[k]].patch]]

\* what scan_diff did with one file of the diff: "filtered", "scanned" or
\* "raised"; the lines handed to _process_line_based_plugins and what
\* happened to each
DiffStep(filename, outcome, lines, per_line) ==
    [filename |-> filename, outcome |-> outcome, lines |-> lines,
     per_line |-> per_line]

\* scan_diff(diff) consumed to its end (lines 174-183), with
\* _get_lines_from_diff (lines 296-311) as the generator it iterates; an error
\* of _process_line_based_plugins is caught nowhere and ends the scan
RECURSIVE ScanDiffFrom(_, _, _, _)
ScanDiffFrom(patch_set, k, trace, yielded) ==
    IF k > Len(patch_set) THEN Scanned(trace, yielded)
    ELSE LET filename == patch_set[k].path
             fc == FileCheckpoint(filename)
             lines == AddedLines(patch_set[k].lines)
             scanned(events) ==
                IF RaisedBy(events, filename) # ""
                THEN Stopped(Append(trace, DiffStep(filename, "raised", lines, events)),
                             yielded \o YieldedBy(events),
                             RaisedBy(events, filename))
                ELSE ScanDiffFrom(patch_set, k + 1,
                                  Append(trace, DiffStep(filename, "scanned", lines, events)),
                                  yielded \o YieldedBy(events))
         IN  IF IsFilteredOut(filters, fc.required, fc.kwargs).result
             THEN ScanDiffFrom(patch_set, k + 1,
                               Append(trace, DiffStep(filename, "filtered", <<>>, <<>>)),
                               yielded)
             ELSE scanned(ProcessLineBasedPlugins(lines, filename))

ScanDiffOn(patch_set) == ScanDiffFrom(patch_set, 1, <<>>, <<>>)

\* the filter scan_line disables (lines 121-123)
IsInvalidFile == "detect_secrets.filters.common.is_invalid_file"

\* get_settings().disable_filters(path) followed by get_filters.cache_clear()
DisableFilters(active, path) == SelectSeq(active, LAMBDA f : f.path # path)

\* eager search not asked for
AdhocEagerSearch_Off == FALSE

\* line 135 of scan_line
AdhocEagerSearch == TRUE

\* scan_line(line) consumed to its end (lines 118-146): the filters left
\* active, the analyze_line calls, the checkpoints run and the secrets yielded
ScanLineOn(line) ==
    LET active == DisableFilters(filters, IsInvalidFile)
        context == CodeSnippet(<<line>>, 1)
        scanned(s) ==
            [filters |-> active,
             calls |-> [p \in 1..Len(Plugins) |-> s[p].call],
             checkpoints |-> Flatten([p \in 1..Len(Plugins) |-> s[p].checkpoints]),
             yielded |-> Flatten([p \in 1..Len(Plugins) |-> s[p].yielded])]
    IN  scanned([p \in 1..Len(Plugins) |->
                    ScanLineUnder(active, Plugins[p], "adhoc-string-scan", line, 0,
                                  context, AdhocEagerSearch)])

\* ------------------------------------------------------------------------
\* SpecEntry: scan_file, scan_diff and scan_line called in any order on a
\* tree of two files: the first cannot be opened, cannot be decoded or can
\* be read, and the diff has up to MaxDiffLines lines for it; the second,
\* which the stock file filter excludes, has one added line in the diff
\* ------------------------------------------------------------------------
\* most lines the diff has for the first file
MaxDiffLines == 2

\* added, removed and context lines with a secret, and ones too short to scan
DiffLines == {DiffLine(k, v) : k \in DiffKinds, v \in {QuotedLine, ShortLine}}

FileErrors == {"", "IOError", "UnicodeDecodeError"}

EntryFileContents ==
    [text : {<<QuotedLine, QuotedLine>>},
     parse : {<<ParsingError, ParsingError>>},
     error : FileErrors,
     patch : SeqsUpTo(DiffLines, MaxDiffLines)]

EntryOtherFile ==
    [text : {<<QuotedLine>>},
     parse : {<<ParsingError, ParsingError>>},
     error : {""},
     patch : {<<DiffLine("added", QuotedLine)>>}]

\* the stock filters preceded by is_invalid_file, which accepts both files
EntryFilters ==
    << Filter(IsInvalidFile, {"filename"}, {"filename"},
              [filename |-> {}, line |-> {}, secret |-> {}]) >> \o StockFilters

InitEntry ==
    /\ fs \in {[f \in Files |-> IF f = "f1" THEN c ELSE o] :
                    c \in EntryFileContents, o \in EntryOtherFile}
    /\ slot = None
    /\ instances = 0
    /\ issued = [f \in Files |-> 0]
    /\ last = InitLast
    /\ prompt = NoPrompt
    /\ PluginIdle
    /\ threads = NoThreads
    /\ filters \in {<<>>, StockFilters, EntryFilters}
    /\ available_transformers = Transformers
    /\ stream = NoStream
    /\ done = NothingDone

\* scan_diff(diff), the generator consumed to its end or to the error that
\* ends it; the diff lists the changed files in the given order
ScanDiff(order) ==
    \E patch_set \in {PatchSet(order)} :
        \E r \in {ScanDiffOn(patch_set)} :
            /\ done' = [op |-> "scan_diff", diff |-> patch_set, trace |-> r.trace,
                        yielded |-> r.yielded, raised |-> r.raised]
            /\ UNCHANGED <<fs, prompt, auditvars, pluginvars, filters, available_transformers, stream>>

\* scan_line(line), the generator consumed to its end
ScanAdhocLine(line) ==
    \E r \in {ScanLineOn(line)} :
        /\ filters' = r.filters
        /\ done' = [op |-> "scan_line", line |-> line, calls |-> r.calls,
                    checkpoints |-> r.checkpoints, yielded |-> r.yielded]
        /\ UNCHANGED <<fs, prompt, auditvars, pluginvars, available_transformers, stream>>

NextEntry ==
    \/ \E filename \in Files : ScanFile(filename)
    \/ \E order \in {<<"f1", "f2">>, <<"f2", "f1">>} : ScanDiff(order)
    \/ \E line \in ScanLineVals : ScanAdhocLine(line)

SpecEntry == InitEntry /\ [][NextEntry]_vars

\* ------------------------------------------------------------------------
\* Notions the properties of the entry points are stated in
\* ------------------------------------------------------------------------
\* position of a plugin in the registry
PluginIndex(type) == CHOOSE p \in 1..Len(Plugins) : Plugins[p].secret_type = type

\* the stock file filter is active and excludes the file
FileExcluded(filename) ==
    /\ \E i \in 1..Len(filters) : filters[i].path = "should_exclude_file"
    /\ filename = "f2"

\* the diff adds this text as line n of the file
AddedAt(filename, n, text) ==
    \E i \in 1..Len(fs[filename].patch) :
        /\ fs[filename].patch[i].kind = "added"
        /\ Cardinality({j \in 1..i : fs[filename].patch[j].kind # "removed"}) = n
        /\ Strip(fs[filename].patch[i].value) = text

\* ------------------------------------------------------------------------
\* C21  The records scan_file yields, and those scan_diff yields for one
\* file of the diff, are in line order: along the output the line numbers
\* never decrease, and among the records of one line those of an earlier
\* plugin of the registry come before those of a later plugin.
\* ------------------------------------------------------------------------
C21_LineThenPluginOrder ==
    done.op \in {"scan_file", "scan_diff"} =>
        \A k, l \in 1..Len(done.yielded) :
            (k < l /\ done.yielded[k].filename = done.yielded[l].filename) =>
                /\ done.yielded[k].line_number <= done.yielded[l].line_number
                /\ done.yielded[k].line_number = done.yielded[l].line_number =>
                        PluginIndex(done.yielded[k].type)
                            <= PluginIndex(done.yielded[l].type)

\* a diff scan that yielded records of both plugins for each of two lines
C21_TwoLinesTwoPlugins ==
    /\ done.op = "scan_diff"
    /\ \E m, n \in 1..MaxDiffLines + 1 :
        /\ m < n
        /\ \A i \in {m, n}, p \in 1..Len(Plugins) :
                \E k \in 1..Len(done.yielded) :
                    /\ done.yielded[k].line_number = i
                    /\ done.yielded[k].type = Plugins[p].secret_type

\* ------------------------------------------------------------------------
\* C22  Every record scan_diff yields carries the filename and the line
\* number of a line the diff adds; removed and context lines reach no plugin;
\* a file the file-level checkpoint suppresses contributes no line and no
\* record.
\* ------------------------------------------------------------------------
C22_OnlyAddedLines ==
    done.op = "scan_diff" =>
        /\ \A k \in 1..Len(done.yielded) :
                /\ \E text \in ScanLineVals :
                        AddedAt(done.yielded[k].filename,
                                done.yielded[k].line_number, text)
                /\ ~FileExcluded(done.yielded[k].filename)
        /\ \A t \in 1..Len(done.trace) :
                /\ \A i \in 1..Len(done.trace[t].per_line) :
                     \A c \in 1..Len(done.trace[t].per_line[i].calls) :
                        LET call == done.trace[t].per_line[i].calls[c]
                        IN  AddedAt(call.filename, call.line_number, call.line)
                /\ FileExcluded(done.trace[t].filename) =>
                        /\ done.trace[t].lines = <<>>
                        /\ done.trace[t].per_line = <<>>

\* the diff removes a line with a secret and adds one after a context line:
\* the records are those of the added line, and the other file was suppressed
C22_RemovedLineNotReported ==
    /\ done.op = "scan_diff"
    /\ fs["f1"].patch = <<DiffLine("removed", QuotedLine), DiffLine("added", QuotedLine)>>
    /\ done.yielded # <<>>
    /\ \A k \in 1..Len(done.yielded) : done.yielded[k].line_number = 1
    /\ \E t \in 1..Len(done.trace) : done.trace[t].outcome = "filtered"

\* ------------------------------------------------------------------------
\* C23  scan_line treats its argument as one line: every record it yields
\* has line number 0, each active plugin's analyze_line is called once, in
\* registry order, on the string as given with eager search on, and no
\* checkpoint on the filename alone is run.
\* ------------------------------------------------------------------------
C23_OneSyntheticLine ==
    done.op = "scan_line" =>
        /\ \A k \in 1..Len(done.yielded) : done.yielded[k].line_number = 0
        /\ Len(done.calls) = Len(Plugins)
        /\ \A p \in 1..Len(Plugins) :
                /\ done.calls[p].plugin = Plugins[p].secret_type
                /\ done.calls[p].line = done.line
                /\ done.calls[p].line_number = 0
                /\ done.calls[p].enable_eager_search
        /\ \A c \in 1..Len(done.checkpoints) : "filename" \notin done.checkpoints[c]

\* a bare string scanned with the stock filters active: the entropy plugin
\* found it by the eager search and it passed the two checkpoints
C23_BareStringFound ==
    /\ done.op = "scan_line"
    /\ done.line = BareLine
    /\ filters = StockFilters
    /\ \E k \in 1..Len(done.yielded) :
            /\ done.yielded[k].type = HexType
            /\ done.yielded[k].line_number = 0
    /\ Len(done.checkpoints) >= 2

\* ------------------------------------------------------------------------
\* C25  When a file named in a scan cannot be opened or cannot be decoded,
\* scan_file and scan_diff skip it: the call raises no error, yields no
\* record of that file, and goes on with the files that remain.
\* ------------------------------------------------------------------------
C25_UnreadableFileSkipped ==
    done.op \in {"scan_file", "scan_diff"} =>
        /\ done.raised = ""
        /\ \A k \in 1..Len(done.yielded) : fs[done.yielded[k].filename].error = ""
        /\ done.op = "scan_diff" => Len(done.trace) = Len(done.diff)

\* ------------------------------------------------------------------------
\* SpecThreads: two reconciliations of secrets of one file under way at the
\* same time on the one LineGetter that open_file hands to both; nothing in
\* the code holds a lock, so a thread can be interrupted between any two
\* statements of LineGetter.lines and of the use_eager_transformers setter
\* ------------------------------------------------------------------------
Threads == {1, 2}

\* a thread in get_raw_secrets_from_file: the statement it is at, its secret,
\* is_first_time_opening_file, all_secrets, and inside LineGetter.lines the
\* flag it read, the lines it computed and the list it returned; at the end
\* "return" or the error raised
Thread(pc, secret, first, all_secrets, mode, computed, value, outcome) ==
    [pc |-> pc, secret |-> secret, first |-> first, all_secrets |-> all_secrets,
     mode |-> mode, computed |-> computed, value |-> value, outcome |-> outcome]

\* the records of the first file the two threads reconcile
ThreadSecrets ==
    {s \in SecretsOfFile("f1") : s.type = HexType /\ s.secret_hash = HashSecret("A")}

\* the first file: one line of text, which the lazy transformer declines or
\* turns into no line or one, and the eager transformer declines or turns
\* into one line or two
ThreadFileContents ==
    [text : {<<QuotedLine>>},
     parse : {<<l, e>> :
                l \in {ParsingError, Parsed(<<>>), Parsed(<<BlankLine>>),
                       Parsed(<<QuotedLine>>)},
                e \in {ParsingError, Parsed(<<QuotedLine>>),
                       Parsed(<<BlankLine, QuotedLine>>)}},
     error : {""},
     patch : {<<>>}]

InitThreads ==
    /\ fs \in {[f \in Files |-> IF f = "f1" THEN c ELSE OtherFile] :
                    c \in ThreadFileContents}
    /\ slot = Some(NewLineGetter("f1", 1))
    /\ instances = 1
    /\ issued = [f \in Files |-> IF f = "f1" THEN 1 ELSE 0]
    /\ last = InitLast
    /\ prompt = NoPrompt
    /\ PluginIdle
    /\ threads \in {[t \in Threads |->
                        Thread("open", IF t = 1 THEN a ELSE b, FALSE, <<>>, FALSE,
                               None, None, "")] :
                    a \in ThreadSecrets, b \in ThreadSecrets}
    /\ ScanIdle

\* line 160 of LineGetter.lines: the lines computed under the flag read
\* before are stored, or the raw lines when there are none
StoreLines(g, computed, mode) ==
    LET r == RawLines(g)
    IN  IF ~Truthy(computed)
        THEN [r.getter EXCEPT !.lines = Some(r.value), !.lines_mode = Some(mode)]
        ELSE [g EXCEPT !.lines = computed, !.lines_mode = Some(mode)]

\* lines 78-81: the getter of the factory, the first-time test
ThreadOpen(t) ==
    /\ threads[t].pc = "open"
    /\ threads' = [threads EXCEPT ![t].pc = "check",
                                  ![t].first = IsFirstTimeOpeningFile(slot[1])]
    /\ UNCHANGED <<fs, prompt, slot, instances, issued, last, scanvars>>

\* lines 155-156 of LineGetter.lines: the cached list when there is one
ThreadCheck(t) ==
    /\ threads[t].pc = "check"
    /\ threads' = IF Truthy(slot[1].lines)
                  THEN [threads EXCEPT ![t].pc = "scan", ![t].value = slot[1].lines]
                  ELSE [threads EXCEPT ![t].pc = "compute"]
    /\ UNCHANGED <<fs, prompt, slot, instances, issued, last, scanvars>>

\* lines 158-159: the flag is read and the file transformed
ThreadCompute(t) ==
    /\ threads[t].pc = "compute"
    /\ threads' = [threads EXCEPT
            ![t].pc = "store",
            ![t].mode = UseEagerTransformers(slot[1]),
            ![t].computed = GetTransformedFile(Transformers, fs["f1"].parse, "f1",
                                               UseEagerTransformers(slot[1]))]
    /\ UNCHANGED <<fs, prompt, slot, instances, issued, last, scanvars>>

\* line 160: self._lines is assigned
ThreadStore(t) ==
    /\ threads[t].pc = "store"
    /\ slot' = Some(StoreLines(slot[1], threads[t].computed, threads[t].mode))
    /\ threads' = [threads EXCEPT ![t].pc = "return"]
    /\ UNCHANGED <<fs, prompt, instances, issued, last, scanvars>>

\* line 162: return self._lines
ThreadReturn(t) ==
    /\ threads[t].pc = "return"
    /\ threads' = [threads EXCEPT ![t].pc = "scan", ![t].value = slot[1].lines]
    /\ UNCHANGED <<fs, prompt, slot, instances, issued, last, scanvars>>

\* lines 83-109: the lines are selected and scanned; subscripting None raises
\* TypeError; the read of line_getter.lines for the code snippet (line 94)
\* fills the cache again when another thread has emptied it
ThreadScan(t) ==
    LET th == threads[t]
        sel == SelectLines(th.secret, th.value[1])
        p == ScanPass(FromSecretType(th.secret.type), th.secret, sel[1])
    IN  /\ th.pc = "scan"
        /\ IF th.value = None
           THEN /\ threads' = [threads EXCEPT ![t].pc = "done", ![t].outcome = "TypeError"]
                /\ slot' = slot
           ELSE IF sel = None
           THEN /\ threads' = [threads EXCEPT
                        ![t].pc = "done",
                        ![t].outcome = "SecretNotFoundOnSpecifiedLineError"]
                /\ slot' = slot
           ELSE /\ threads' = [threads EXCEPT
                        ![t].pc = "decide",
                        ![t].all_secrets = th.all_secrets \o p.found]
                /\ slot' = IF sel[1].lines_to_scan = <<>> THEN slot
                           ELSE Some(Lines(slot[1]).getter)
        /\ UNCHANGED <<fs, prompt, instances, issued, last, scanvars>>

\* lines 111-118, and line 184 of the setter: go round again in eager mode,
\* or return
ThreadDecide(t) ==
    /\ threads[t].pc = "decide"
    /\ threads' = IF ShouldRetry(threads[t].all_secrets, threads[t].first, slot[1])
                  THEN [threads EXCEPT ![t].pc = "set_flag"]
                  ELSE [threads EXCEPT ![t].pc = "done", ![t].outcome = "return"]
    /\ UNCHANGED <<fs, prompt, slot, instances, issued, last, scanvars>>

\* line 187 of the setter: self._use_eager_transformers = status
ThreadSetFlag(t) ==
    /\ threads[t].pc = "set_flag"
    /\ slot' = Some([slot[1] EXCEPT !.use_eager = TRUE])
    /\ threads' = [threads EXCEPT ![t].pc = "clear"]
    /\ UNCHANGED <<fs, prompt, instances, issued, last, scanvars>>

\* line 188 of the setter: self._lines = None
ThreadClear(t) ==
    /\ threads[t].pc = "clear"
    /\ slot' = Some([slot[1] EXCEPT !.lines = None, !.lines_mode = None])
    /\ threads' = [threads EXCEPT ![t].pc = "check"]
    /\ UNCHANGED <<fs, prompt, instances, issued, last, scanvars>>

NextThreads ==
    \E t \in Threads :
        \/ ThreadOpen(t)
        \/ ThreadCheck(t)
        \/ ThreadCompute(t)
        \/ ThreadStore(t)
        \/ ThreadReturn(t)
        \/ ThreadScan(t)
        \/ ThreadDecide(t)
        \/ ThreadSetFlag(t)
        \/ ThreadClear(t)

SpecThreads == InitThreads /\ [][NextThreads]_vars

\* ------------------------------------------------------------------------
\* C29  Under concurrent reconciliation of two secrets of one file on one
\* LineGetter, in every interleaving the cached lines are those of the
\* current mode flag: once a reconciliation has flipped the getter to eager
\* and emptied the cache, no other reconciliation stores lines it computed
\* under the lazy mode.
\* ------------------------------------------------------------------------
C29_CachedLinesOfCurrentFlag ==
    (threads # NoThreads /\ \A t \in Threads : threads[t].pc # "clear") =>
        (slot[1].lines # None => slot[1].lines_mode = Some(slot[1].use_eager))

\* ------------------------------------------------------------------------
\* C31  The set of active filters is the same after a call of scan_line as
\* it was before the call, so that a later scan_file or scan_diff applies
\* the filters it would have applied without the call.
\* ------------------------------------------------------------------------
C31_ActiveFiltersKeptByScanLine ==
    [][done'.op = "scan_line" => filters' = filters]_vars

\* ------------------------------------------------------------------------
\* The pattern of the entropy plugin (plugins/high_entropy_strings.py)
\* ------------------------------------------------------------------------
\* lines 135-139 of non_quoted_string_regex: the pattern substituted
RegexAlternative(is_exact_match) ==
    IF is_exact_match THEN "non_quoted_exact" ELSE "non_quoted"

\* lines 133-142 of non_quoted_string_regex, up to the yield: the pattern in
\* effect is kept in the local old_regex and the alternative takes its place
EnterContext(pattern, open, is_exact_match) ==
    [regex |-> RegexAlternative(is_exact_match),
     contexts |-> Append(open, [old_regex |-> pattern,
                                regex_alternative |->
                                    RegexAlternative(is_exact_match)])]

\* the pattern put back only when the body ends without an exception
LeaveContext_NoFinally(pattern, open, raised) ==
    [regex |-> IF raised # "" THEN pattern ELSE open[Len(open)].old_regex,
     contexts |-> SubSeq(open, 1, Len(open) - 1)]

\* lines 143-146 of non_quoted_string_regex, after the yield: the finally
\* clause runs however the body of the innermost context ended
LeaveContext(pattern, open, raised) ==
    [regex |-> open[Len(open)].old_regex,
     contexts |-> SubSeq(open, 1, Len(open) - 1)]

\* analyze_string (lines 35-44) under the pattern in effect: the exact
\* pattern matches a line that is one bare string and nothing else
AnalyzeStringUnder(pattern, line) ==
    IF pattern = QuotedRegex THEN EntropyAnalyzeString(line, TRUE)
    ELSE IF pattern = RegexAlternative(FALSE) THEN EntropyAnalyzeString(line, FALSE)
    ELSE IF Len(line) = 1 /\ ~IsSpace(line[1]) /\ ~line[1].quoted
         THEN {line[1].val} ELSE {}

\* HighEntropyStringsPlugin.analyze_line (lines 46-89) of a plugin whose
\* pattern is pattern, with open the contexts open around the call and verify
\* the plugin's verify method: the patterns analyze_string ran under, what is
\* returned or raised, and the pattern and the contexts the call leaves
EntropyAnalyzeLineIn(pattern, open, plugin, verify, line, enable_eager_search) ==
    LET left(within, second) ==
            [patterns |-> <<pattern, within.regex>>,
             output |-> second.output, raised |-> second.raised,
             after |-> LeaveContext(within.regex, within.contexts, second.raised)]
        retry(within) ==
            left(within, AnalyzeLineOn(plugin, verify,
                                       AnalyzeStringUnder(within.regex, line),
                                       "f1", 1, TRUE))
        after(first) ==
            IF first.raised # ""
            THEN [patterns |-> <<pattern>>, output |-> {}, raised |-> first.raised,
                  after |-> [regex |-> pattern, contexts |-> open]]
            ELSE IF ~RetryNonQuoted(first.output, enable_eager_search)
            THEN [patterns |-> <<pattern>>,
                  output |-> {s \in first.output :
                                AboveLimit(plugin, s.secret_value[1])},
                  raised |-> "",
                  after |-> [regex |-> pattern, contexts |-> open]]
            ELSE retry(EnterContext(pattern, open, FALSE))
    IN  after(AnalyzeLineOn(plugin, verify, AnalyzeStringUnder(pattern, line),
                            "f1", 1, TRUE))

\* ------------------------------------------------------------------------
\* SpecContext: one hex entropy plugin; non_quoted_string_regex contexts are
\* entered, nested up to MaxContexts deep, and left in the order of nested
\* with statements, normally or by an exception of the body; analyze_line is
\* called outside and inside them, with a verify method that returns or
\* raises
\* ------------------------------------------------------------------------
\* deepest nesting of contexts around a call
MaxContexts == 2

InitContext ==
    /\ fs = [f \in Files |-> OtherFile]
    /\ slot = None
    /\ instances = 0
    /\ issued = [f \in Files |-> 0]
    /\ last = InitLast
    /\ prompt = NoPrompt
    /\ threads = NoThreads
    /\ PluginIdle
    /\ ScanIdle

\* with plugin.non_quoted_string_regex(is_exact_match): entered
EnterNonQuoted(is_exact_match) ==
    /\ Len(contexts) < MaxContexts
    /\ \E r \in {EnterContext(regex, contexts, is_exact_match)} :
        /\ regex' = r.regex
        /\ contexts' = r.contexts
        /\ done' = [op |-> "enter", before |-> regex, open |-> contexts,
                    patterns |-> <<>>, raised |-> "", output |-> {}]
    /\ UNCHANGED <<fs, prompt, auditvars, filters, available_transformers, stream>>

\* the body of the innermost with statement ends, normally or by raised
LeaveNonQuoted(raised) ==
    /\ contexts # <<>>
    /\ \E r \in {LeaveContext(regex, contexts, raised)} :
        /\ regex' = r.regex
        /\ contexts' = r.contexts
        /\ done' = [op |-> "leave", before |-> regex, open |-> contexts,
                    patterns |-> <<>>, raised |-> raised, output |-> {}]
    /\ UNCHANGED <<fs, prompt, auditvars, filters, available_transformers, stream>>

\* plugin.analyze_line(filename, line, line_number, enable_eager_search)
CallAnalyzeLineIn(verify, line, enable_eager_search) ==
    /\ \E r \in {EntropyAnalyzeLineIn(regex, contexts, FromSecretType(HexType),
                                      verify, line, enable_eager_search)} :
        /\ regex' = r.after.regex
        /\ contexts' = r.after.contexts
        /\ done' = [op |-> "analyze_line", before |-> regex, open |-> contexts,
                    line |-> line, enable_eager_search |-> enable_eager_search,
                    patterns |-> r.patterns, raised |-> r.raised,
                    output |-> r.output]
    /\ UNCHANGED <<fs, prompt, auditvars, filters, available_transformers, stream>>

NextContext ==
    \/ \E is_exact_match \in BOOLEAN : EnterNonQuoted(is_exact_match)
    \/ \E raised \in {"", "ValueError"} : LeaveNonQuoted(raised)
    \/ \E verify \in {DefaultVerify,
                      [m \in SecretValues |-> VerifyRaised("ValueError")]},
          line \in PluginLineVals, enable_eager_search \in BOOLEAN :
            CallAnalyzeLineIn(verify, line, enable_eager_search)

SpecContext == InitContext /\ [][NextContext]_vars

\* ------------------------------------------------------------------------
\* C32  The pattern of the entropy plugin is the quoted pattern whenever no
\* non_quoted_string_regex context is open, so before and after every
\* analyze_line call made outside a context; inside contexts it is the
\* alternative of the innermost open one.  Every analyze_line call leaves
\* the pattern it found, and leaving a context puts back the pattern that
\* was in effect when it was entered, whether the body ended normally or by
\* an exception, also when contexts are nested.
\* ------------------------------------------------------------------------
C32_PatternRestored ==
    /\ regex = IF contexts = <<>> THEN QuotedRegex
               ELSE contexts[Len(contexts)].regex_alternative
    /\ done.op = "analyze_line" => (regex = done.before /\ contexts = done.open)
    /\ done.op = "leave" =>
            /\ regex = done.open[Len(done.open)].old_regex
            /\ Len(contexts) = Len(done.open) - 1

\* analyze_line ran the non-quoted pattern inside its own context, within a
\* context that was already open, and the call ended by an exception
C32_RaisedInsideNestedContext ==
    /\ done.op = "analyze_line"
    /\ done.open # <<>>
    /\ Len(done.patterns) = 2
    /\ done.raised # ""

\* ------------------------------------------------------------------------
\* Audit report (audit/report.py)
\* ------------------------------------------------------------------------
\* the value of each VerifiedResult member
VerifiedResultValue(result) ==
    CASE result = "VERIFIED_FALSE" -> 1
      [] result = "UNVERIFIED" -> 2
      [] result = "VERIFIED_TRUE" -> 3

\* VerifiedResult.from_secret: by the label is_secret of the baseline record
VerifiedResultFromSecret(is_secret) ==
    IF is_secret = None THEN "UNVERIFIED"
    ELSE IF is_secret[1] THEN "VERIFIED_TRUE" ELSE "VERIFIED_FALSE"

\* SecretClassToPrint.from_class (lines 21-26)
FromClass(secret_class) ==
    IF secret_class \in {"UNVERIFIED", "VERIFIED_TRUE"} THEN "REAL_SECRET"
    ELSE "FALSE_POSITIVE"

\* the result of the record at hand taken whatever the entry holds
GetPrioritizedVerifiedResult_Latest(result1, result2) == result1

\* get_prioritized_verified_result (lines 73-80)
GetPrioritizedVerifiedResult(result1, result2) ==
    IF VerifiedResultValue(result1) > VerifiedResultValue(result2) THEN result1
    ELSE result2

\* the baseline file, and the longest baseline
BaselineFile == ".secrets.baseline"
MaxBaseline == 2

\* the records a baseline holds for the audited files, each with the label
\* the audit gave it: both detectors on the secret of f1, one on that of f2
ReportRecords ==
    {[secret |-> s, is_secret |-> l] :
        s \in {b \in BaselineSecrets :
                /\ b.secret_hash = HashSecret("A")
                /\ b.line_number = MaxEagerLines
                /\ b.filename = "f2" => b.type = HexType},
        l \in {None, Some(TRUE), Some(FALSE)}}

\* a baseline in the order its records are iterated: no two records of one
\* identity, and one label for the record of f2
Baselines ==
    {b \in SeqsUpTo(ReportRecords, MaxBaseline) :
        /\ b # <<>>
        /\ \A i, j \in 1..Len(b) : SameSecret(b[i].secret, b[j].secret) => i = j
        /\ \A i \in 1..Len(b) : b[i].secret.filename = "f2" => b[i].is_secret = None}

\* get_baseline_from_file (common.py): the records of the baseline file
GetBaselineFromFile(baseline_file) == fs[baseline_file].records

\* the dict secrets of generate_report, in insertion order: where key is
KeyIndex(secrets, key) == {i \in 1..Len(secrets) : secrets[i].key = key}

\* d[k] = v on a dict
DictSet(d, k, v) == [n \in DOMAIN d \cup {k} |-> IF n = k THEN v ELSE d[n]]

\* lines 48-67: one detection merged into the dict secrets
MergeDetection(secrets, secret, filename, verified_result, detection, lines) ==
    LET key == <<secret.secret_hash, filename>>
        at == KeyIndex(secrets, key)
        text == lines[detection.line_number]
        merged(i, e) ==
            [secrets EXCEPT ![i].entry =
                [e EXCEPT !.lines = DictSet(e.lines, detection.line_number, text),
                          !.types = IF \E t \in 1..Len(e.types) : e.types[t] = secret.type
                                    THEN e.types ELSE Append(e.types, secret.type),
                          !.category = GetPrioritizedVerifiedResult(verified_result,
                                                                    e.category)]]
    IN  IF at # {}
        THEN merged(CHOOSE i \in at : TRUE, secrets[CHOOSE i \in at : TRUE].entry)
        ELSE Append(secrets,
                    [key |-> key,
                     entry |-> [secrets |-> detection.secret_value,
                                filename |-> filename,
                                lines |-> DictSet(<<>>, detection.line_number, text),
                                types |-> <<secret.type>>,
                                category |-> verified_result]])

\* lines 47-67: the loop over the detections of one record; a line number
\* beyond line_getter.lines is the IndexError of line 49 or 62
RECURSIVE MergeDetections(_, _, _, _, _, _)
MergeDetections(st, secret, filename, verified_result, detections, lines) ==
    IF detections = <<>> \/ st.raised # "" THEN st
    ELSE IF Head(detections).line_number > Len(lines)
         THEN [st EXCEPT !.raised = "IndexError"]
         ELSE MergeDetections(
                [st EXCEPT !.secrets = MergeDetection(st.secrets, secret, filename,
                                                      verified_result,
                                                      Head(detections), lines)],
                secret, filename, verified_result, Tail(detections), lines)

\* what the history keeps of one record of the baseline
ReportStep(record, verified_result, skipped, searched, r) ==
    [record |-> record, verified_result |-> verified_result, skipped |-> skipped,
     searched |-> searched, detections |-> r.result, trace |-> r.trace]

\* lines 37-67: one record of the baseline.  line_getter_factory(filename)
\* is open_file, which hands back the getter the search has just used; its
\* lines are read only for a detection, so they are the cached ones.
ReportRecord(st, record, class_to_print) ==
    LET verified_result == VerifiedResultFromSecret(record.is_secret)
        secret == [record.secret EXCEPT !.line_number = 0]
        filename == record.secret.filename
        hit == OpenFileHit(st.slot, filename)
        found(g, r) ==
            IF r.kind # "return"
            THEN [st EXCEPT !.raised = r.kind, !.slot = Some(r.getter),
                            !.instances = IF hit THEN @ ELSE @ + 1,
                            !.steps = Append(@, ReportStep(record, verified_result,
                                                           FALSE, secret, r))]
            ELSE MergeDetections(
                    [st EXCEPT !.slot = Some(r.getter),
                               !.instances = IF hit THEN @ ELSE @ + 1,
                               !.steps = Append(@, ReportStep(record, verified_result,
                                                              FALSE, secret, r))],
                    secret, filename, verified_result, r.result,
                    IF r.result = <<>> THEN <<>> ELSE Lines(r.getter).value)
        searched(g) == found(g, GetRawSecretsFromFileOn(secret, g))
    IN  IF class_to_print # None /\ FromClass(verified_result) # class_to_print[1]
        THEN [st EXCEPT !.steps = Append(@, ReportStep(record, verified_result, TRUE,
                                                       record.secret,
                                                       [result |-> <<>>, trace |-> <<>>]))]
        ELSE searched(OpenFile(st.slot, filename, st.instances + 1))

\* lines 35-67: the loop over the baseline
RECURSIVE ReportLoop(_, _, _)
ReportLoop(st, baseline, class_to_print) ==
    IF baseline = <<>> \/ st.raised # "" THEN st
    ELSE ReportLoop(ReportRecord(st, Head(baseline), class_to_print),
                    Tail(baseline), class_to_print)

\* generate_report on the cache s of open_file
GenerateReportOn(s, n, baseline_file, class_to_print) ==
    ReportLoop([secrets |-> <<>>, slot |-> s, instances |-> n, raised |-> "",
                steps |-> <<>>],
               GetBaselineFromFile(baseline_file), class_to_print)

\* a report session: the audited files and a baseline file
InitReport ==
    /\ fs \in {[f \in Files \cup {BaselineFile} |->
                    IF f = "f1" THEN c
                    ELSE IF f = "f2" THEN OtherFile ELSE [records |-> b]] :
                c \in {x \in FileContents("f1") : x.text = <<>>}, b \in Baselines}
    /\ slot = None
    /\ instances = 0
    /\ issued = [f \in Files |-> 0]
    /\ last = InitLast
    /\ prompt = NoPrompt
    /\ PluginIdle
    /\ threads = NoThreads
    /\ ScanIdle

\* generate_report(baseline_file, class_to_print)
GenerateReport(baseline_file, class_to_print) ==
    /\ \E r \in {GenerateReportOn(slot, instances, baseline_file, class_to_print)} :
        /\ r.instances <= MaxInstances
        /\ slot' = r.slot
        /\ instances' = r.instances
        /\ done' = [op |-> "generate_report", class_to_print |-> class_to_print,
                    raised |-> r.raised, steps |-> r.steps, secrets |-> r.secrets,
                    results |-> [i \in 1..Len(r.secrets) |-> r.secrets[i].entry]]
    /\ UNCHANGED <<fs, prompt, issued, last, threads, pluginvars, filters,
                   available_transformers, stream>>

NextReport ==
    \E class_to_print \in {None, Some("REAL_SECRET"), Some("FALSE_POSITIVE")} :
        GenerateReport(BaselineFile, class_to_print)

SpecReport == InitReport /\ [][NextReport]_vars

\* ------------------------------------------------------------------------
\* C33  generate_report searches the whole file for every record of the
\* baseline that class_to_print lets through, with the record's line number
\* set to zero, and returns at most one entry per (secret_hash, filename):
\* there is an entry exactly when a record of that hash and file had a
\* detection; its lines are the line numbers of the detections of these
\* records, its types are their types, each once, and its category is the
\* highest-valued verified result among them, whatever the order of the
\* records.
\* ------------------------------------------------------------------------
\* the records of the baseline that had a detection for hash h in file f
Contributing(h, f) ==
    {i \in 1..Len(done.steps) :
        /\ ~done.steps[i].skipped
        /\ done.steps[i].record.secret.secret_hash = h
        /\ done.steps[i].record.secret.filename = f
        /\ done.steps[i].detections # <<>>}

\* the entries of the report for hash h in file f
EntriesOf(h, f) ==
    {j \in 1..Len(done.results) :
        /\ done.results[j].filename = f
        /\ done.results[j].secrets # None
        /\ HashSecret(done.results[j].secrets[1]) = h}

\* every line of the cached lines was scanned in the last pass of the search
WholeFileSearched(step) ==
    /\ step.searched.line_number = 0
    /\ step.trace # <<>>
    /\ LET p == step.trace[Len(step.trace)]
       IN  /\ p.selected
           /\ Len(p.calls) = Len(p.lines)
           /\ \A n \in 1..Len(p.calls) :
                /\ p.calls[n].line_number = n
                /\ p.calls[n].line = p.lines[n]

\* the entry e made of the records c
EntryOfContributing(e, c) ==
    /\ DOMAIN e.lines =
         UNION {{done.steps[i].detections[k].line_number :
                    k \in 1..Len(done.steps[i].detections)} : i \in c}
    /\ {e.types[t] : t \in 1..Len(e.types)} =
         {done.steps[i].record.secret.type : i \in c}
    /\ \A t, u \in 1..Len(e.types) : e.types[t] = e.types[u] => t = u
    /\ \E i \in c : e.category = done.steps[i].verified_result
    /\ \A i \in c : VerifiedResultValue(done.steps[i].verified_result)
                        <= VerifiedResultValue(e.category)

C33_ReportMergesByHashAndFile ==
    done.op = "generate_report" =>
        /\ done.raised = ""
        /\ Len(done.steps) = Len(fs[BaselineFile].records)
        /\ \A i \in 1..Len(done.steps) :
            /\ done.steps[i].record = fs[BaselineFile].records[i]
            /\ done.steps[i].skipped =
                 (/\ done.class_to_print # None
                  /\ FromClass(done.steps[i].verified_result) # done.class_to_print[1])
            /\ ~done.steps[i].skipped => WholeFileSearched(done.steps[i])
        /\ \A h \in Hashes, f \in Files :
            /\ Cardinality(EntriesOf(h, f)) = IF Contributing(h, f) = {} THEN 0 ELSE 1
            /\ \A j \in EntriesOf(h, f) :
                EntryOfContributing(done.results[j], Contributing(h, f))
        /\ \A j \in 1..Len(done.results) :
            \E h \in Hashes, f \in Files : j \in EntriesOf(h, f)

\* two records of one secret, recorded with a line number, were merged into
\* one entry, and the first of them has the higher result
C33_MergedHigherFirst ==
    /\ done.op = "generate_report"
    /\ \E j \in 1..Len(done.results) :
        /\ Len(done.results[j].types) = 2
        /\ done.results[j].category = done.steps[1].verified_result
        /\ done.steps[1].verified_result # done.steps[2].verified_result
        /\ done.steps[1].record.secret.line_number # 0

\* ------------------------------------------------------------------------
\* The audit prompt (audit/io.py)
\* ------------------------------------------------------------------------
\* a string is the sequence of its characters
\* class InputOptions (lines 108-113): the name and the value of each member
InputOptions ==
    << [name |-> <<"Y", "E", "S">>, value |-> <<"Y">>],
       [name |-> <<"N", "O">>, value |-> <<"N">>],
       [name |-> <<"S", "K", "I", "P">>, value |-> <<"S">>],
       [name |-> <<"B", "A", "C", "K">>, value |-> <<"B">>],
       [name |-> <<"Q", "U", "I", "T">>, value |-> <<"Q">>] >>
YES == InputOptions[1]
NO == InputOptions[2]
SKIP == InputOptions[3]
BACK == InputOptions[4]
QUIT == InputOptions[5]

\* InputOptions(value): the member of that value, or None for the ValueError
InputOptionsOf(value) ==
    IF \E i \in 1..Len(InputOptions) : InputOptions[i].value = value
    THEN Some(InputOptions[CHOOSE i \in 1..Len(InputOptions) :
                                InputOptions[i].value = value])
    ELSE None

\* the characters a user types, and the longest input
Chars == {"y", "N", "s", "b", "q", "x", " "}
MaxInputLen == 2
Inputs == SeqsUpTo(Chars, MaxInputLen)

\* str.upper() of one character
Upper(c) ==
    CASE c = "y" -> "Y"
      [] c = "s" -> "S"
      [] c = "b" -> "B"
      [] c = "q" -> "Q"
      [] c = "x" -> "X"
      [] OTHER -> c

\* the options offered with stepping back allowed whatever the caller says
PromptOptions_BackAlways(allow_labelling, allow_backstep) ==
    (IF allow_labelling THEN <<YES, NO>> ELSE <<>>) \o <<SKIP>> \o <<BACK>> \o <<QUIT>>

\* UserPrompt.__init__ (lines 117-126): the list options
PromptOptions(allow_labelling, allow_backstep) ==
    (IF allow_labelling THEN <<YES, NO>> ELSE <<>>)
        \o <<SKIP>>
        \o (IF allow_backstep THEN <<BACK>> ELSE <<>>)
        \o <<QUIT>>

\* UserPrompt.__init__ (line 128): valid_input, the first letter of each name
ValidInput(options) == {<<options[i].name[1]>> : i \in 1..Len(options)}

\* lines 102-103: what user_input holds after the input text was read
Normalised(text) == IF text # <<>> THEN <<Upper(text[1])>> ELSE text

\* line 97: user_input not in prompter.valid_input
NotInValidInput(user_input, valid_input) ==
    IF user_input = None THEN TRUE ELSE user_input[1] \notin valid_input

\* get_user_decision(prompt_secret_decision, can_step_back) is called: the
\* prompter is built (line 94) and user_input is None (line 96)
GetUserDecision(prompt_secret_decision, can_step_back) ==
    /\ prompt.pc # "loop"
    /\ prompt' = [pc |-> "loop",
                  prompt_secret_decision |-> prompt_secret_decision,
                  can_step_back |-> can_step_back,
                  valid_input |-> ValidInput(PromptOptions(prompt_secret_decision,
                                                           can_step_back)),
                  options |-> PromptOptions(prompt_secret_decision, can_step_back),
                  user_input |-> None, input |-> None, printed |-> FALSE,
                  rejected_empty |-> FALSE, rejected_text |-> FALSE,
                  returned |-> None]
    /\ UNCHANGED <<fs, auditvars, scanvars>>

\* lines 97-103: one round of the loop, in which the user types text
ReadInput(text) ==
    /\ prompt.pc = "loop"
    /\ NotInValidInput(prompt.user_input, prompt.valid_input)
    /\ prompt' = [prompt EXCEPT
                    !.printed = prompt.user_input # None /\ prompt.user_input[1] # <<>>,
                    !.rejected_empty = @ \/ prompt.user_input = Some(<<>>),
                    !.rejected_text = @ \/ (/\ prompt.user_input # None
                                            /\ prompt.user_input[1] # <<>>),
                    !.input = Some(text),
                    !.user_input = Some(Normalised(text))]
    /\ UNCHANGED <<fs, auditvars, scanvars>>

\* lines 97 and 105: the loop ends and InputOptions(user_input) is returned
ReturnDecision ==
    /\ prompt.pc = "loop"
    /\ ~NotInValidInput(prompt.user_input, prompt.valid_input)
    /\ prompt' = [prompt EXCEPT !.pc = "returned",
                                !.returned = InputOptionsOf(prompt.user_input[1])]
    /\ UNCHANGED <<fs, auditvars, scanvars>>

InitPrompt ==
    /\ fs = [f \in Files |-> OtherFile]
    /\ slot = None
    /\ instances = 0
    /\ issued = [f \in Files |-> 0]
    /\ last = InitLast
    /\ prompt = NoPrompt
    /\ PluginIdle
    /\ threads = NoThreads
    /\ ScanIdle

NextPrompt ==
    \/ \E prompt_secret_decision, can_step_back \in BOOLEAN :
            GetUserDecision(prompt_secret_decision, can_step_back)
    \/ \E text \in Inputs : ReadInput(text)
    \/ ReturnDecision

SpecPrompt == InitPrompt /\ [][NextPrompt]_vars

\* ------------------------------------------------------------------------
\* C34  get_user_decision returns only after reading an input whose first
\* character, upper-cased, is the letter of a permitted option, and returns
\* that option: SKIP and QUIT always, YES and NO only when
\* prompt_secret_decision is true, BACK only when can_step_back is true.
\* After any other input, the empty one included, it does not return and
\* asks again.
\* ------------------------------------------------------------------------
\* the option the text names, if it names one of the five
Named(text) ==
    IF text = <<>> THEN None
    ELSE CASE text[1] \in {"y", "Y"} -> Some(YES)
           [] text[1] \in {"n", "N"} -> Some(NO)
           [] text[1] \in {"s", "S"} -> Some(SKIP)
           [] text[1] \in {"b", "B"} -> Some(BACK)
           [] text[1] \in {"q", "Q"} -> Some(QUIT)
           [] OTHER -> None

\* the options permitted under the two arguments of the call
Permitted(prompt_secret_decision, can_step_back) ==
    {SKIP, QUIT} \cup (IF prompt_secret_decision THEN {YES, NO} ELSE {})
                 \cup (IF can_step_back THEN {BACK} ELSE {})

\* the call at hand permits the option
Offers(option) ==
    option \in Permitted(prompt.prompt_secret_decision, prompt.can_step_back)

C34_ReturnsPermittedOption ==
    [][/\ (prompt.pc = "loop" /\ prompt'.pc = "returned") =>
            /\ prompt.input # None
            /\ Named(prompt.input[1]) # None
            /\ Offers(Named(prompt.input[1])[1])
            /\ prompt'.returned = Named(prompt.input[1])
       /\ (/\ prompt.pc = "loop"
           /\ prompt.input # None
           /\ IF Named(prompt.input[1]) = None THEN TRUE
              ELSE ~Offers(Named(prompt.input[1])[1])) =>
            /\ prompt'.pc = "loop"
            /\ prompt'.returned = None
            /\ prompt'.input # None
       /\ (/\ prompt.pc = "loop"
           /\ prompt.input # None
           /\ Named(prompt.input[1]) # None
           /\ Offers(Named(prompt.input[1])[1])) => prompt'.pc = "returned"]_vars

\* BACK was returned for an input in lower case with more after its first
\* character, after an empty input and another one had been turned down
C34_BackAfterRejectedInputs ==
    /\ prompt.pc = "returned"
    /\ prompt.returned = Some(BACK)
    /\ prompt.input = Some(<<"b", "x">>)
    /\ prompt.rejected_empty
    /\ prompt.rejected_text

====
